---- MODULE Spec2Model ----
(***************************************************************************)
(* A model of the codemode orchestrator (CodeMode), its request bridge     *)
(* (createRequestBridge) and its spec processor (resolveRefs/processSpec). *)
(* JavaScript strings that the code inspects character by character        *)
(* (paths, methods, header names) are sequences of one-character strings.  *)
(***************************************************************************)
EXTENDS Integers, Sequences, FiniteSets, TLC

(***************************************************************************)
(* Strings                                                                 *)
(***************************************************************************)
LowerChars ==
  <<"a","b","c","d","e","f","g","h","i","j","k","l","m",
    "n","o","p","q","r","s","t","u","v","w","x","y","z">>

UpperChars ==
  <<"A","B","C","D","E","F","G","H","I","J","K","L","M",
    "N","O","P","Q","R","S","T","U","V","W","X","Y","Z">>

UpperMap ==
  [c \in { LowerChars[i] : i \in 1..26 } |->
     UpperChars[CHOOSE i \in 1..26 : LowerChars[i] = c]]

LowerMap ==
  [c \in { UpperChars[i] : i \in 1..26 } |->
     LowerChars[CHOOSE i \in 1..26 : UpperChars[i] = c]]

UpperChar(c) == IF c \in DOMAIN UpperMap THEN UpperMap[c] ELSE c

LowerChar(c) == IF c \in DOMAIN LowerMap THEN LowerMap[c] ELSE c

\* String.prototype.toUpperCase / toLowerCase
toUpperCase(s) == [i \in 1..Len(s) |-> UpperChar(s[i])]

toLowerCase(s) == [i \in 1..Len(s) |-> LowerChar(s[i])]

\* String.prototype.startsWith
startsWith(s, pre) ==
  /\ Len(s) >= Len(pre)
  /\ SubSeq(s, 1, Len(pre)) = pre

\* String.prototype.includes
includes(s, sub) ==
  \E i \in 1..(Len(s) + 1) :
    /\ i + Len(sub) - 1 <= Len(s)
    /\ SubSeq(s, i, i + Len(sub) - 1) = sub

\* The characters the path checks single out; NUL stands for "\0".
NUL == "NUL"
CR == "\r"
LF == "\n"
BSL == "\\"

(***************************************************************************)
(* Optional configuration values: `x ?? d`                                 *)
(***************************************************************************)
NoOpt == [has |-> FALSE, v |-> 0]

Some(n) == [has |-> TRUE, v |-> n]

OrDefault(o, d) == IF o.has THEN o.v ELSE d

(***************************************************************************)
(* Request bridge                                                          *)
(***************************************************************************)
ALLOWED_METHODS ==
  { <<"G","E","T">>, <<"P","O","S","T">>, <<"P","U","T">>,
    <<"P","A","T","C","H">>, <<"D","E","L","E","T","E">>,
    <<"H","E","A","D">>, <<"O","P","T","I","O","N","S">> }

BLOCKED_HEADER_PATTERNS == <<
  [exact |-> TRUE, text |-> <<"a","u","t","h","o","r","i","z","a","t","i","o","n">>],
  [exact |-> TRUE, text |-> <<"c","o","o","k","i","e">>],
  [exact |-> TRUE, text |-> <<"h","o","s","t">>],
  [exact |-> TRUE, text |-> <<"o","r","i","g","i","n">>],
  [exact |-> TRUE, text |-> <<"r","e","f","e","r","e","r">>],
  [exact |-> FALSE, text |-> <<"x","-","f","o","r","w","a","r","d","e","d","-">>],
  [exact |-> TRUE, text |-> <<"x","-","r","e","a","l","-","i","p">>],
  [exact |-> TRUE, text |-> <<"x","-","c","l","i","e","n","t","-","i","p">>],
  [exact |-> TRUE, text |-> <<"c","f","-","c","o","n","n","e","c","t","i","n","g","-","i","p">>],
  [exact |-> TRUE, text |-> <<"t","r","u","e","-","c","l","i","e","n","t","-","i","p">>],
  [exact |-> FALSE, text |-> <<"p","r","o","x","y","-">>],
  [exact |-> TRUE, text |-> <<"t","r","a","n","s","f","e","r","-","e","n","c","o","d","i","n","g">>],
  [exact |-> TRUE, text |-> <<"c","o","n","n","e","c","t","i","o","n">>],
  [exact |-> TRUE, text |-> <<"u","p","g","r","a","d","e">>],
  [exact |-> TRUE, text |-> <<"t","e">>] >>

DEFAULT_MAX_REQUESTS == 50

\* 10 * 1024 * 1024
DEFAULT_MAX_RESPONSE_BYTES == 10485760

\* Errors are records: the message's fixed prefix, its variable detail and
\* the number it quotes.
NoError == [kind |-> "none", detail |-> "", n |-> 0]

Err(kind, detail, n) == [kind |-> kind, detail |-> detail, n |-> n]

\* validatePath without the null-byte, CR/LF and backslash checks.
validatePath_noSmugglingChecks(path) ==
  IF includes(path, <<":", "/", "/">>)
    THEN Err("Invalid path", "must not contain ://", 0)
  ELSE IF ~startsWith(path, <<"/">>)
    THEN Err("Invalid path", "must start with /", 0)
  ELSE IF startsWith(path, <<"/", "/">>)
    THEN Err("Invalid path", "must not start with //", 0)
  ELSE NoError

\* validatePath: the error it throws, NoError when it returns.
validatePath(path) ==
  IF includes(path, <<":", "/", "/">>)
    THEN Err("Invalid path", "must not contain ://", 0)
  ELSE IF ~startsWith(path, <<"/">>)
    THEN Err("Invalid path", "must start with /", 0)
  ELSE IF startsWith(path, <<"/", "/">>)
    THEN Err("Invalid path", "must not start with //", 0)
  ELSE IF includes(path, <<NUL>>)
    THEN Err("Invalid path", "must not contain null bytes", 0)
  ELSE IF includes(path, <<CR>>) \/ includes(path, <<LF>>)
    THEN Err("Invalid path", "must not contain CR/LF characters", 0)
  ELSE IF includes(path, <<BSL>>)
    THEN Err("Invalid path", "must not contain backslashes", 0)
  ELSE NoError

\* RegExp.prototype.test for one BLOCKED_HEADER_PATTERNS entry (flag i).
patternTest(p, key) ==
  IF p.exact THEN toLowerCase(key) = p.text
             ELSE startsWith(toLowerCase(key), p.text)

\* A blocklist check that compares the key as written (no flag i).
isBlocked_caseSensitive(key) ==
  \E i \in 1..Len(BLOCKED_HEADER_PATTERNS) :
    IF BLOCKED_HEADER_PATTERNS[i].exact
      THEN key = BLOCKED_HEADER_PATTERNS[i].text
      ELSE startsWith(key, BLOCKED_HEADER_PATTERNS[i].text)

\* BLOCKED_HEADER_PATTERNS.some((p) => p.test(key))
isBlocked(key) ==
  \E i \in 1..Len(BLOCKED_HEADER_PATTERNS) :
    patternTest(BLOCKED_HEADER_PATTERNS[i], key)

\* A headers object is a function from its own keys to their values.
EmptyHeaders == [k \in {} |-> ""]

Restrict(h, keys) == [k \in keys |-> h[k]]

\* filterHeaders(headers, allowedHeaders); allowedHeaders is an optional set.
filterHeaders(headers, allowedHeaders) ==
  IF allowedHeaders.has
    THEN LET allowed == { toLowerCase(a) : a \in allowedHeaders.v }
         IN  Restrict(headers, { k \in DOMAIN headers : toLowerCase(k) \in allowed })
    ELSE Restrict(headers, { k \in DOMAIN headers : ~isBlocked(k) })

ContentTypeKey == <<"c","o","n","t","e","n","t","-","t","y","p","e">>

\* The request init handed to the handler: upper-cased method, filtered
\* headers, and for a body that is neither undefined nor null the JSON
\* body with the content-type default.
buildInit(upperMethod, opts, allowedHeaders) ==
  LET filtered == filterHeaders(opts.headers, allowedHeaders)
      withCT ==
        IF opts.hasBody /\ ContentTypeKey \notin DOMAIN filtered
          THEN [k \in DOMAIN filtered \cup {ContentTypeKey} |->
                  IF k = ContentTypeKey THEN "application/json" ELSE filtered[k]]
          ELSE filtered
  IN  [method |-> upperMethod, headers |-> withCT, hasBody |-> opts.hasBody]

NoInit == [method |-> <<>>, headers |-> EmptyHeaders, hasBody |-> FALSE]

\* A limit test that lets the (N+1)-th invocation through.
overLimit_offByOne(count, maxRequests) == count > maxRequests + 1

\* `++requestCount > maxRequests`, on the incremented count.
overLimit(count, maxRequests) == count > maxRequests

\* A closure that validates first and counts only the invocations that
\* passed the method and path checks.
bridgeAdmit_countAfterValidation(requestCount, maxRequests, allowedHeaders, opts) ==
  LET upperMethod == toUpperCase(opts.method)
      pathErr == validatePath(opts.path)
  IN  IF upperMethod \notin ALLOWED_METHODS
        THEN [count |-> requestCount, init |-> NoInit,
              err |-> Err("Invalid HTTP method", "", 0)]
      ELSE IF pathErr # NoError
        THEN [count |-> requestCount, init |-> NoInit, err |-> pathErr]
      ELSE IF overLimit(requestCount + 1, maxRequests)
        THEN [count |-> requestCount + 1, init |-> NoInit,
              err |-> Err("Request limit exceeded", "requests per execution", maxRequests)]
      ELSE [count |-> requestCount + 1, err |-> NoError,
            init |-> buildInit(upperMethod, opts, allowedHeaders)]

\* The bridge closure up to its call of the handler: the new counter, the
\* error thrown (NoError when the handler is called) and the init passed.
bridgeAdmit(requestCount, maxRequests, allowedHeaders, opts) ==
  LET count == requestCount + 1
      upperMethod == toUpperCase(opts.method)
      pathErr == validatePath(opts.path)
  IN  IF overLimit(count, maxRequests)
        THEN [count |-> count, init |-> NoInit,
              err |-> Err("Request limit exceeded", "requests per execution", maxRequests)]
      ELSE IF upperMethod \notin ALLOWED_METHODS
        THEN [count |-> count, init |-> NoInit,
              err |-> Err("Invalid HTTP method", "", 0)]
      ELSE IF pathErr # NoError
        THEN [count |-> count, init |-> NoInit, err |-> pathErr]
      ELSE [count |-> count, err |-> NoError,
            init |-> buildInit(upperMethod, opts, allowedHeaders)]

(***************************************************************************)
(* readResponseWithLimit                                                   *)
(*                                                                         *)
(* A response is [stream, chunks]: with a body stream, chunks lists the    *)
(* byteLength of each chunk reader.read() will deliver; without one        *)
(* (response.body is null) the body is empty and text() yields "".         *)
(***************************************************************************)
RECURSIVE SumSeq(_)
SumSeq(s) == IF s = <<>> THEN 0 ELSE Head(s) + SumSeq(Tail(s))

Prefix(s, n) == SubSeq(s, 1, n)

IdleReader ==
  [pc |-> "idle", chunks |-> <<>>, maxBytes |-> 0, reads |-> 0,
   totalBytes |-> 0, buffered |-> <<>>, locked |-> FALSE, err |-> NoError]

\* response.body?.getReader(), and the fallback when there is no reader.
readStart(response, maxBytes) ==
  IF response.stream
    THEN [pc |-> "reading", chunks |-> response.chunks, maxBytes |-> maxBytes,
          reads |-> 0, totalBytes |-> 0, buffered |-> <<>>, locked |-> TRUE,
          err |-> NoError]
    ELSE \* text = await response.text(); text.length is 0 for a null body
         [pc |-> IF 0 > maxBytes THEN "failed" ELSE "done",
          chunks |-> <<>>, maxBytes |-> maxBytes, reads |-> 0, totalBytes |-> 0,
          buffered |-> <<>>, locked |-> FALSE,
          err |-> IF 0 > maxBytes THEN Err("Response too large", "bytes exceeds limit", maxBytes)
                                  ELSE NoError]

\* A loop body that pushes every chunk and tests the total only when the
\* stream is done (the whole body is buffered before the check).
readStep_checkAtEnd(st) ==
  IF st.reads = Len(st.chunks)
    THEN IF st.totalBytes > st.maxBytes
           THEN [st EXCEPT !.pc = "failed", !.locked = FALSE,
                           !.err = Err("Response too large", "exceeded limit", st.maxBytes)]
           ELSE [st EXCEPT !.pc = "done", !.locked = FALSE]
    ELSE LET value == st.chunks[st.reads + 1]
         IN  [st EXCEPT !.reads = st.reads + 1,
                        !.totalBytes = st.totalBytes + value,
                        !.buffered = Append(st.buffered, value)]

\* One iteration of `for (;;)`: await reader.read(), then either break,
\* throw (the finally block releases the lock) or push the chunk.
readStep(st) ==
  IF st.reads = Len(st.chunks)
    THEN [st EXCEPT !.pc = "done", !.locked = FALSE]
    ELSE LET value == st.chunks[st.reads + 1]
             total == st.totalBytes + value
         IN  IF total > st.maxBytes
               THEN [st EXCEPT !.pc = "failed", !.reads = st.reads + 1,
                               !.totalBytes = total, !.locked = FALSE,
                               !.err = Err("Response too large", "exceeded limit", st.maxBytes)]
               ELSE [st EXCEPT !.reads = st.reads + 1, !.totalBytes = total,
                               !.buffered = Append(st.buffered, value)]

RECURSIVE readLoop(_)
readLoop(st) == IF st.pc = "reading" THEN readLoop(readStep(st)) ELSE st

\* readResponseWithLimit run to its end: the final reader state.
readResponseWithLimit(response, maxBytes) == readLoop(readStart(response, maxBytes))

(***************************************************************************)
(* JSON values of the spec processor                                       *)
(*                                                                         *)
(* A value is [t, s, v]: "str" (a primitive, s its text), "undef", "null", *)
(* "arr" (v the items, each under an empty key) or "obj" (v the own        *)
(* entries <<key, value>> in insertion order).                             *)
(***************************************************************************)
Str(s) == [t |-> "str", s |-> s, v |-> <<>>]

Undef == [t |-> "undef", s |-> "", v |-> <<>>]

Null == [t |-> "null", s |-> "", v |-> <<>>]

Arr(items) == [t |-> "arr", s |-> "", v |-> [i \in 1..Len(items) |-> <<"", items[i]>>]]

Items(a) == [i \in 1..Len(a.v) |-> a.v[i][2]]

Obj(entries) == [t |-> "obj", s |-> "", v |-> entries]

\* Object.keys
Keys(o) == { o.v[i][1] : i \in 1..Len(o.v) }

\* o[key] read on any value: undefined unless o is an object owning key.
Get(o, key) ==
  IF o.t = "obj" /\ key \in Keys(o)
    THEN o.v[CHOOSE i \in 1..Len(o.v) : o.v[i][1] = key][2]
    ELSE Undef

\* o[key] = value on a plain object: "__proto__" goes to the prototype
\* setter and creates no own key; an own key keeps its position.
SetProp(o, key, value) ==
  IF key = "__proto__" THEN o
  ELSE IF key \in Keys(o)
    THEN Obj([i \in 1..Len(o.v) |-> IF o.v[i][1] = key THEN <<key, value>> ELSE o.v[i]])
    ELSE Obj(Append(o.v, <<key, value>>))

\* JavaScript truthiness of a value.
Truthy(x) == ~(x.t \in {"undef", "null"} \/ x = Str(""))

(***************************************************************************)
(* resolveRefs                                                             *)
(***************************************************************************)
HTTP_METHODS == <<"get", "post", "put", "patch", "delete">>

DEFAULT_MAX_REF_DEPTH == 50

DANGEROUS_KEYS == {"__proto__", "constructor", "prototype"}

\* ref.replace("#/", "").split("/") on the pointers the documents use.
RefParts(ref) ==
  CASE ref = "#/A" -> <<"A">>
    [] ref = "#/B" -> <<"B">>
    [] ref = "#/A/x" -> <<"A", "x">>
    [] ref = "#/missing" -> <<"missing">>
    [] ref = "#/__proto__/polluted" -> <<"__proto__", "polluted">>
    [] ref = "#/A/constructor/x" -> <<"A", "constructor", "x">>
    [] OTHER -> <<ref>>

Circular(ref) == Obj(<< <<"$circular", Str(ref)>> >>)

MaxDepthExceeded(ref) ==
  Obj(<< <<"$circular", Str(ref)>>, <<"$reason", Str("max depth exceeded")>> >>)

UnsafeRef(ref) == Obj(<< <<"$ref", Str(ref)>>, <<"$error", Str("unsafe ref path")>> >>)

\* "$ref" in record && typeof record.$ref === "string"
HasStringRef(record) == "$ref" \in Keys(record) /\ Get(record, "$ref").t = "str"

\* A pointer walk that reads every part, dangerous or not.
RECURSIVE walk_noGuard(_, _, _)
walk_noGuard(resolved, parts, steps) ==
  IF parts = <<>> THEN [unsafe |-> FALSE, v |-> resolved, steps |-> steps]
  ELSE walk_noGuard(Get(resolved, Head(parts)), Tail(parts), steps + 1)

\* The pointer walk: for each part, refuse a dangerous one, else read it.
\* steps counts the property reads made on the root document.
RECURSIVE walk(_, _, _)
walk(resolved, parts, steps) ==
  IF parts = <<>> THEN [unsafe |-> FALSE, v |-> resolved, steps |-> steps]
  ELSE IF Head(parts) \in DANGEROUS_KEYS
    THEN [unsafe |-> TRUE, v |-> Undef, steps |-> steps]
  ELSE walk(Get(resolved, Head(parts)), Tail(parts), steps + 1)

\* The memo and, kept for the claims, the log of the $ref sites visited.
NoMemo == [cache |-> [r \in {} |-> Undef], log |-> <<>>]

Visit(st, ref, seen, kind, value, steps) ==
  [st EXCEPT !.log = Append(@, [ref |-> ref, seen |-> seen, kind |-> kind,
                                v |-> value, steps |-> steps])]

\* A memo that is filled with the circular marker instead of the result.
cacheSet_marker(cache, ref, result) ==
  [r \in DOMAIN cache \cup {ref} |-> IF r = ref THEN Circular(ref) ELSE cache[r]]

\* _cache.set(ref, result)
cacheSet(cache, ref, result) ==
  [r \in DOMAIN cache \cup {ref} |-> IF r = ref THEN result ELSE cache[r]]

\* A depth test that is off by one.
depthReached_late(seen, maxDepth) == Cardinality(seen) > maxDepth

\* seen.size >= maxDepth
depthReached(seen, maxDepth) == Cardinality(seen) >= maxDepth

\* DANGEROUS_KEYS.has(key)
skipKey(key) == key \in DANGEROUS_KEYS

\* resolveRefs(obj, root, seen, maxDepth, _cache): [v, st], the value
\* returned and the memo (shared, mutated by the call) afterwards.
RECURSIVE resolveRefs(_, _, _, _, _)
RECURSIVE resolveItems(_, _, _, _, _)
RECURSIVE resolveEntries(_, _, _, _, _)

\* obj.map((item) => resolveRefs(item, ...))
resolveItems(items, root, seen, maxDepth, st) ==
  IF items = <<>> THEN [v |-> <<>>, st |-> st]
  ELSE LET h == resolveRefs(Head(items), root, seen, maxDepth, st)
           t == resolveItems(Tail(items), root, seen, maxDepth, h.st)
       IN  [v |-> <<h.v>> \o t.v, st |-> t.st]

\* for (const [key, value] of Object.entries(record)) ...
resolveEntries(entries, root, seen, maxDepth, st) ==
  IF entries = <<>> THEN [v |-> <<>>, st |-> st]
  ELSE IF skipKey(Head(entries)[1])
    THEN resolveEntries(Tail(entries), root, seen, maxDepth, st)
  ELSE LET h == resolveRefs(Head(entries)[2], root, seen, maxDepth, st)
           t == resolveEntries(Tail(entries), root, seen, maxDepth, h.st)
       IN  [v |-> << <<Head(entries)[1], h.v>> >> \o t.v, st |-> t.st]

resolveRefs(obj, root, seen, maxDepth, st) ==
  IF obj.t \notin {"arr", "obj"} THEN [v |-> obj, st |-> st]
  ELSE IF obj.t = "arr"
    THEN LET r == resolveItems(Items(obj), root, seen, maxDepth, st)
         IN  [v |-> Arr(r.v), st |-> r.st]
  ELSE IF HasStringRef(obj)
    THEN LET ref == Get(obj, "$ref").s
             w == walk(root, RefParts(ref), 0)
             r == resolveRefs(w.v, root, seen \cup {ref}, maxDepth, st)
         IN  IF ref \in seen
               THEN [v |-> Circular(ref),
                     st |-> Visit(st, ref, seen, "circular", Circular(ref), 0)]
             ELSE IF depthReached(seen, maxDepth)
               THEN [v |-> MaxDepthExceeded(ref),
                     st |-> Visit(st, ref, seen, "depth", MaxDepthExceeded(ref), 0)]
             ELSE IF ref \in DOMAIN st.cache
               THEN [v |-> st.cache[ref],
                     st |-> Visit(st, ref, seen, "cached", st.cache[ref], 0)]
             ELSE IF w.unsafe
               THEN [v |-> UnsafeRef(ref),
                     st |-> Visit(st, ref, seen, "unsafe", UnsafeRef(ref), w.steps)]
             ELSE [v |-> r.v,
                   st |-> Visit([r.st EXCEPT !.cache = cacheSet(@, ref, r.v)],
                                ref, seen, "resolved", r.v, w.steps)]
  ELSE LET r == resolveEntries(obj.v, root, seen, maxDepth, st)
       IN  [v |-> Obj(r.v), st |-> r.st]

(***************************************************************************)
(* processSpec                                                             *)
(*                                                                         *)
(***************************************************************************)
\* The server URLs the documents use: whether a scheme and host open the
\* URL, and the characters after them (the whole URL when none does).
UrlParts(url) ==
  CASE url = "/api/" -> [origin |-> FALSE, path |-> <<"/", "a", "p", "i", "/">>]
    [] url = "https://x.io" -> [origin |-> TRUE, path |-> <<>>]
    [] url = "https://x.io/v3//" -> [origin |-> TRUE, path |-> <<"/", "v", "3", "/", "/">>]
    [] OTHER -> [origin |-> FALSE, path |-> <<>>]

\* The text of a sequence of characters.
RECURSIVE Join(_)
Join(chars) == IF chars = <<>> THEN "" ELSE Head(chars) \o Join(Tail(chars))

\* A strip that removes one trailing slash only.
stripTrailingSlashes_one(chars) ==
  IF chars # <<>> /\ chars[Len(chars)] = "/"
    THEN SubSeq(chars, 1, Len(chars) - 1)
    ELSE chars

\* .replace(/\/+$/, "")
RECURSIVE stripTrailingSlashes(_)
stripTrailingSlashes(chars) ==
  IF chars # <<>> /\ chars[Len(chars)] = "/"
    THEN stripTrailingSlashes(SubSeq(chars, 1, Len(chars) - 1))
    ELSE chars

\* extractServerBasePath: new URL(url) throws for a URL without a scheme;
\* the pathname of an absolute URL with an empty path is "/".
extractServerBasePath(spec) ==
  LET servers == Get(spec, "servers")
      url == UrlParts(Get(Items(servers)[1], "url").s)
  IN  IF servers.t # "arr" \/ Len(servers.v) = 0 THEN ""
      ELSE IF url.origin
        THEN Join(stripTrailingSlashes(IF url.path = <<>> THEN <<"/">> ELSE url.path))
        ELSE Join(stripTrailingSlashes(url.path))

\* status.startsWith("2") on the status keys the documents use.
StartsWith2(status) == status \in {"200", "201", "2XX"}

\* The 2xx and default entries of op.responses, in order.
RECURSIVE successEntries(_)
successEntries(entries) ==
  IF entries = <<>> THEN <<>>
  ELSE IF StartsWith2(Head(entries)[1]) \/ Head(entries)[1] = "default"
    THEN <<Head(entries)>> \o successEntries(Tail(entries))
    ELSE successEntries(Tail(entries))

successResponses(op) ==
  LET responses == Get(op, "responses")
  IN  IF Truthy(responses) /\ responses.t = "obj"
        THEN Obj(successEntries(responses.v))
        ELSE Obj(<<>>)

\* The object stored at paths[fullPath][method].
processOperation(op, spec, maxRefDepth) ==
  LET success == successResponses(op)
  IN  Obj(<< <<"summary", Get(op, "summary")>>,
             <<"description", Get(op, "description")>>,
             <<"tags", Get(op, "tags")>>,
             <<"parameters",
               resolveRefs(Get(op, "parameters"), spec, {}, maxRefDepth, NoMemo).v>>,
             <<"requestBody",
               resolveRefs(Get(op, "requestBody"), spec, {}, maxRefDepth, NoMemo).v>>,
             <<"responses",
               resolveRefs(IF Len(success.v) > 0 THEN success ELSE Get(op, "responses"),
                           spec, {}, maxRefDepth, NoMemo).v>> >>)

\* for (const method of HTTP_METHODS) ... paths[fullPath][method] = {...}
RECURSIVE processMethods(_, _, _, _, _)
processMethods(methods, item, pathItem, spec, maxRefDepth) ==
  IF methods = <<>> THEN item
  ELSE LET op == Get(pathItem, Head(methods))
           next == IF Truthy(op)
                     THEN SetProp(item, Head(methods), processOperation(op, spec, maxRefDepth))
                     ELSE item
       IN  processMethods(Tail(methods), next, pathItem, spec, maxRefDepth)

\* for (const [path, pathItem] of Object.entries(rawPaths)) ...
\* Writes through paths["__proto__"] land on the prototype, not on paths.
RECURSIVE processPaths(_, _, _, _, _)
processPaths(entries, paths, basePath, spec, maxRefDepth) ==
  IF entries = <<>> THEN paths
  ELSE LET path == Head(entries)[1]
           pathItem == Head(entries)[2]
           fullPath == IF basePath # "" THEN basePath \o path ELSE path
           item == processMethods(HTTP_METHODS, Obj(<<>>), pathItem, spec, maxRefDepth)
       IN  IF ~Truthy(pathItem)
             THEN processPaths(Tail(entries), paths, basePath, spec, maxRefDepth)
             ELSE processPaths(Tail(entries), SetProp(paths, fullPath, item),
                               basePath, spec, maxRefDepth)

\* A processSpec that keeps the servers of its input in its output.
processSpec_keepServers(spec, maxRefDepth) ==
  LET rawPaths == IF Get(spec, "paths").t = "obj" THEN Get(spec, "paths") ELSE Obj(<<>>)
  IN  Obj(<< <<"servers", Get(spec, "servers")>>,
             <<"paths",
               processPaths(rawPaths.v, Obj(<<>>), extractServerBasePath(spec),
                            spec, maxRefDepth)>> >>)

\* processSpec(spec, maxRefDepth)
processSpec(spec, maxRefDepth) ==
  LET rawPaths == IF Get(spec, "paths").t = "obj" THEN Get(spec, "paths") ELSE Obj(<<>>)
  IN  Obj(<< <<"paths",
               processPaths(rawPaths.v, Obj(<<>>), extractServerBasePath(spec),
                            spec, maxRefDepth)>> >>)

(***************************************************************************)
(* extractTags                                                             *)
(*                                                                         *)
(* The Map of tag counts is the sequence of its entries [tag, n] in        *)
(* insertion order.                                                        *)
(***************************************************************************)
\* tags.set(tag, (tags.get(tag) ?? 0) + 1)
countTag(tags, tag) ==
  IF \E i \in 1..Len(tags) : tags[i].tag = tag
    THEN [i \in 1..Len(tags) |->
            IF tags[i].tag = tag THEN [tags[i] EXCEPT !.n = @ + 1] ELSE tags[i]]
    ELSE Append(tags, [tag |-> tag, n |-> 1])

\* for (const tag of op.tags) ...
RECURSIVE countTags(_, _)
countTags(tags, items) ==
  IF items = <<>> THEN tags
  ELSE countTags(countTag(tags, Head(items).s), Tail(items))

\* for (const method of HTTP_METHODS) { if (op?.tags) ... }
RECURSIVE countMethods(_, _, _)
countMethods(tags, methods, pathItem) ==
  IF methods = <<>> THEN tags
  ELSE LET opTags == Get(Get(pathItem, Head(methods)), "tags")
       IN  countMethods(IF Truthy(opTags) /\ opTags.t = "arr"
                          THEN countTags(tags, Items(opTags)) ELSE tags,
                        Tail(methods), pathItem)

\* for (const pathItem of Object.values(rawPaths)) ...
RECURSIVE countPaths(_, _)
countPaths(tags, entries) ==
  IF entries = <<>> THEN tags
  ELSE countPaths(IF Truthy(Head(entries)[2])
                    THEN countMethods(tags, HTTP_METHODS, Head(entries)[2])
                    ELSE tags,
                  Tail(entries))

\* A comparator that orders by ascending count.
byCount_ascending(a, b) == a.n - b.n

\* (a, b) => b[1] - a[1]
byCount(a, b) == b.n - a.n

\* toSorted is stable: an entry goes after every entry that does not
\* compare after it.
RECURSIVE insertSorted(_, _)
insertSorted(sorted, e) ==
  IF sorted = <<>> THEN <<e>>
  ELSE IF byCount(Head(sorted), e) <= 0
    THEN <<Head(sorted)>> \o insertSorted(Tail(sorted), e)
    ELSE <<e>> \o sorted

RECURSIVE toSorted(_)
toSorted(entries) ==
  IF entries = <<>> THEN <<>>
  ELSE insertSorted(toSorted(SubSeq(entries, 1, Len(entries) - 1)),
                    entries[Len(entries)])

\* extractTags(spec)
extractTags(spec) ==
  LET rawPaths == Get(spec, "paths")
      sorted == toSorted(countPaths(<<>>, rawPaths.v))
  IN  IF ~Truthy(rawPaths) THEN Arr(<<>>)
      ELSE Arr([i \in 1..Len(sorted) |-> Str(sorted[i].tag)])

(***************************************************************************)
(* validateNamespace                                                       *)
(*                                                                         *)
(* A namespace is the sequence of its characters.                          *)
(***************************************************************************)
RESERVED_NAMES ==
  { <<"O","b","j","e","c","t">>, <<"A","r","r","a","y">>,
    <<"P","r","o","m","i","s","e">>, <<"F","u","n","c","t","i","o","n">>,
    <<"S","t","r","i","n","g">>, <<"N","u","m","b","e","r">>,
    <<"B","o","o","l","e","a","n">>, <<"S","y","m","b","o","l">>,
    <<"M","a","p">>, <<"S","e","t">>, <<"W","e","a","k","M","a","p">>,
    <<"W","e","a","k","S","e","t">>, <<"D","a","t","e">>,
    <<"R","e","g","E","x","p">>, <<"E","r","r","o","r">>,
    <<"J","S","O","N">>, <<"M","a","t","h">>, <<"P","r","o","x","y">>,
    <<"R","e","f","l","e","c","t">>,
    <<"g","l","o","b","a","l","T","h","i","s">>,
    <<"u","n","d","e","f","i","n","e","d">>, <<"n","u","l","l">>,
    <<"N","a","N">>, <<"I","n","f","i","n","i","t","y">>,
    <<"c","o","n","s","o","l","e">>, <<"s","p","e","c">>,
    <<"g","l","o","b","a","l">> }

Letters == { LowerChars[i] : i \in 1..26 } \cup { UpperChars[i] : i \in 1..26 }

Digits == {"0", "1", "2", "3", "4", "5", "6", "7", "8", "9"}

\* [a-zA-Z0-9_$]*$ : every character to the end of the input is in the class.
RECURSIVE restMatches(_)
restMatches(chars) ==
  \/ chars = <<>>
  \/ /\ Head(chars) \in Letters \cup Digits \cup {"_", "$"}
     /\ restMatches(Tail(chars))

\* An identifier test that lets a digit start the name.
VALID_JS_IDENTIFIER_anyStart(namespace) ==
  namespace # <<>> /\ restMatches(namespace)

\* VALID_JS_IDENTIFIER.test(namespace): /^[a-zA-Z_$][a-zA-Z0-9_$]*$/
VALID_JS_IDENTIFIER(namespace) ==
  /\ namespace # <<>>
  /\ Head(namespace) \in Letters \cup {"_", "$"}
  /\ restMatches(Tail(namespace))

\* validateNamespace(namespace): the error thrown, NoError when it returns.
validateNamespace(namespace) ==
  IF ~VALID_JS_IDENTIFIER(namespace)
    THEN Err("namespace", "must be a valid JavaScript identifier", 0)
  ELSE IF namespace \in RESERVED_NAMES
    THEN Err("namespace", "conflicts with reserved name", 0)
  ELSE NoError

\* options.namespace, when the option is absent.
NoNamespace == [has |-> FALSE, v |-> <<>>]

\* options.namespace ?? "api"
namespaceOrDefault(o) == IF o.has THEN o.v ELSE <<"a", "p", "i">>

(***************************************************************************)
(* truncateResponse and CodeMode.formatResult                              *)
(*                                                                         *)
(* A text is the sequence of its characters.  A value returned by agent    *)
(* code is [t, chars, n, items]: "undefined", "null", "num" (the digit n), *)
(* "str" (its characters) or "arr" (its items, none of them an array).     *)
(***************************************************************************)
CHARS_PER_TOKEN == 4

DEFAULT_MAX_RESPONSE_TOKENS == 25000

UndefinedValue == [t |-> "undefined", chars |-> <<>>, n |-> 0, items |-> <<>>]

NullValue == [t |-> "null", chars |-> <<>>, n |-> 0, items |-> <<>>]

NumValue(n) == [t |-> "num", chars |-> <<>>, n |-> n, items |-> <<>>]

StrValue(chars) == [t |-> "str", chars |-> chars, n |-> 0, items |-> <<>>]

ArrValue(items) == [t |-> "arr", chars |-> <<>>, n |-> 0, items |-> items]

DigitChars == <<"0", "1", "2", "3", "4", "5", "6", "7", "8", "9">>

QUOTE == "\""

NULLTEXT == <<"n", "u", "l", "l">>

\* JSON.stringify of a value that is not an array.
stringifyScalar(value) ==
  CASE value.t = "null" -> NULLTEXT
    [] value.t = "num" -> <<DigitChars[value.n + 1]>>
    [] value.t = "str" -> <<QUOTE>> \o value.chars \o <<QUOTE>>
    [] OTHER -> NULLTEXT

\* The items of an array, one per line, indented by two spaces and
\* separated by commas; an undefined item is written null.
RECURSIVE stringifyItems(_)
stringifyItems(items) ==
  IF items = <<>> THEN <<>>
  ELSE <<LF, " ", " ">> \o stringifyScalar(Head(items))
         \o (IF Len(items) > 1 THEN <<",">> ELSE <<>>)
         \o stringifyItems(Tail(items))

\* JSON.stringify(value, null, 2); undefined has no JSON text.
NoText == [has |-> FALSE, chars |-> <<>>]

Text(chars) == [has |-> TRUE, chars |-> chars]

stringify(value) ==
  CASE value.t = "undefined" -> NoText
    [] value.t = "arr" ->
         IF value.items = <<>> THEN Text(<<"[", "]">>)
         ELSE Text(<<"[">> \o stringifyItems(value.items) \o <<LF, "]">>)
    [] OTHER -> Text(stringifyScalar(value))

\* The decimal digits of a number below 1000 (toLocaleString groups no
\* digits there).
RECURSIVE Decimal(_)
Decimal(n) ==
  IF n < 10 THEN <<DigitChars[n + 1]>>
  ELSE Decimal(n \div 10) \o <<DigitChars[(n % 10) + 1]>>

\* Math.ceil(length / CHARS_PER_TOKEN)
estimateTokens(length) == (length + CHARS_PER_TOKEN - 1) \div CHARS_PER_TOKEN

TRUNCATED_DELIMITER ==
  <<"-", "-", "-", " ", "T", "R", "U", "N", "C", "A", "T", "E", "D", " ",
    "-", "-", "-">>

NOTE_RESPONSE_WAS ==
  <<"R", "e", "s", "p", "o", "n", "s", "e", " ", "w", "a", "s", " ", "~">>

NOTE_TOKENS_LIMIT ==
  <<" ", "t", "o", "k", "e", "n", "s", " ", "(", "l", "i", "m", "i", "t",
    ":", " ">>

NOTE_ADVICE ==
  <<")", ".", " ", "U", "s", "e", " ", "m", "o", "r", "e", " ", "s", "p",
    "e", "c", "i", "f", "i", "c", " ", "q", "u", "e", "r", "i", "e", "s",
    " ", "t", "o", " ", "r", "e", "d", "u", "c", "e", " ", "r", "e", "s",
    "p", "o", "n", "s", "e", " ", "s", "i", "z", "e", ".">>

\* The delimiter line and the note that follow a truncated text.
truncationNote(length, maxTokens) ==
  <<LF, LF>> \o TRUNCATED_DELIMITER \o <<LF>> \o NOTE_RESPONSE_WAS
    \o Decimal(estimateTokens(length)) \o NOTE_TOKENS_LIMIT \o Decimal(maxTokens)
    \o NOTE_ADVICE

\* A truncation that also cuts a text of exactly maxChars characters.
tooLong_strict(text, maxChars) == Len(text) >= maxChars

\* !(text.length <= maxChars)
tooLong(text, maxChars) == ~(Len(text) <= maxChars)

\* truncateResponse(content, maxTokens) on a string, or on undefined (the
\* JSON text of undefined), where text.length throws a TypeError.
truncateResponse(content, maxTokens) ==
  LET maxChars == maxTokens * CHARS_PER_TOKEN
  IN  IF ~content.has THEN [threw |-> TRUE, chars |-> <<>>]
      ELSE IF ~tooLong(content.chars, maxChars)
        THEN [threw |-> FALSE, chars |-> content.chars]
      ELSE [threw |-> FALSE,
            chars |-> SubSeq(content.chars, 1, maxChars)
                        \o truncationNote(Len(content.chars), maxTokens)]

\* What a search/execute call settles with: a ToolCallResult (isError set
\* to true, or unset) or a rejection.
ToolCallResult(chars, isError) ==
  [settled |-> "resolved", text |-> chars, isError |-> isError]

Rejected == [settled |-> "rejected", text |-> <<>>, isError |-> FALSE]

NoToolCallResult == [settled |-> "none", text |-> <<>>, isError |-> FALSE]

ERROR_PREFIX == <<"E", "r", "r", "o", "r", ":", " ">>

\* An ExecuteResult: result, and error (absent, or a string).
ExecuteResult(value, error) == [result |-> value, error |-> error]

\* A formatResult that builds the result text before it looks at error.
CodeMode_formatResult_textFirst(res, maxResponseTokens) ==
  LET resultText == IF res.result.t = "str" THEN Text(res.result.chars)
                    ELSE stringify(res.result)
      truncated == truncateResponse(resultText, maxResponseTokens)
  IN  IF truncated.threw THEN Rejected
      ELSE IF res.error.has /\ res.error.chars # <<>>
        THEN ToolCallResult(ERROR_PREFIX \o res.error.chars, TRUE)
      ELSE ToolCallResult(truncated.chars, FALSE)

\* CodeMode.formatResult(result), with this.maxResponseTokens.
CodeMode_formatResult(res, maxResponseTokens) ==
  LET resultText == IF res.result.t = "str" THEN Text(res.result.chars)
                    ELSE stringify(res.result)
      truncated == truncateResponse(resultText, maxResponseTokens)
  IN  IF res.error.has /\ res.error.chars # <<>>
        THEN ToolCallResult(ERROR_PREFIX \o res.error.chars, TRUE)
      ELSE IF truncated.threw THEN Rejected
      ELSE ToolCallResult(truncated.chars, FALSE)

(***************************************************************************)
(* State                                                                   *)
(***************************************************************************)
VARIABLES
  cfg,             \* the options given to the constructor / createRequestBridge
  menu,            \* the request options the caller's code may pass to the bridge
  requestCount,    \* `let requestCount` of the bridge closure
  invoked,         \* how many times the closure has been invoked
  handlerCalls,    \* how many times the host handler has been called
  inflight,        \* per caller: handler calls whose response is awaited
  last,            \* the latest step of the closure: what it got, threw, passed on
  pc,              \* per execute call: "idle", "running" or "done"
  issued,          \* per caller: bridge invocations made
  limited,         \* per caller: an invocation threw "Request limit exceeded"
  startCount,      \* per call: the counter of the call's bridge when it began
  beganOverlapped, \* per call: another call was running when it began
  escaped,         \* per call: the error the agent code let escape
  result,          \* per call: the ToolCallResult of execute
  rd,              \* readResponseWithLimit of one response, step by step
  rs,              \* spec processing: input and output
  cm,              \* the CodeMode instance: its fields and its latest call
  ex,              \* the sandbox executor: its runtime and the execute call under way
  tc               \* the tool calls under way: per call, its position and what it holds

bridgeVars == <<requestCount, invoked, handlerCalls, inflight, last, issued, limited>>

callVars == <<pc, startCount, beganOverlapped, escaped, result>>

vars == <<cfg, menu, requestCount, invoked, handlerCalls, inflight, last, pc,
          issued, limited, startCount, beganOverlapped, escaped, result, rd, rs, cm, ex, tc>>

\* Bounds of the model.
MaxCalls == 2

Overshoot == 1

MaxInFlight == 1

Calls == 1..MaxCalls

\* Caller 0 invokes a bridge closure directly, without an orchestrator.
Direct == 0

Callers == 0..MaxCalls

NoSetOpt == [has |-> FALSE, v |-> {}]

NoOpts == [method |-> <<>>, path |-> <<>>, headers |-> EmptyHeaders, hasBody |-> FALSE]

NoResponse == [stream |-> FALSE, chunks |-> <<>>]

NoLast ==
  [phase |-> "none", call |-> 0, idx |-> 0, opts |-> NoOpts, err |-> NoError,
   init |-> NoInit, response |-> NoResponse]

NoResult == [isError |-> FALSE, err |-> NoError]

NoSpecRun ==
  [pc |-> "idle", kind |-> "none", root |-> Undef, obj |-> Undef, maxDepth |-> 0,
   out |-> Undef, log |-> <<>>, again |-> Undef]

\* No CodeMode instance is under observation.
NoExecuteResult == ExecuteResult(UndefinedValue, NoText)

\* The latest call on the instance: which method was called and with what
\* tool name, the tool names then in force, which of search/execute ran, whether the spec provider was
\* invoked and what it returned, the global `spec` injected into the
\* sandbox, the executor's result and what the call settled with.
NoToolCall ==
  [op |-> "none", tool |-> <<>>, searchName |-> <<>>, executeName |-> <<>>,
   ran |-> "none", provided |-> "none", raw |-> Undef,
   injected |-> Undef, res |-> NoExecuteResult, out |-> NoToolCallResult]

NoCodeMode ==
  [status |-> "none", namespace |-> NoNamespace, err |-> NoError,
   searchToolName |-> <<>>, executeToolName |-> <<>>, maxResponseTokens |-> 0,
   processedSpec |-> Undef, specContext |-> [has |-> FALSE, tags |-> Arr(<<>>), endpointCount |-> 0],
   searches |-> 0, providerCalls |-> 0, processCalls |-> 0, first |-> Undef,
   call |-> NoToolCall,
   executor |-> 0, executorPromise |-> "none", createCalls |-> 0]

\* A tool call under way: the executor and the spec it holds.
NoCall ==
  [op |-> "none", pc |-> "idle", executor |-> 0, invokedProvider |-> FALSE,
   spec |-> Undef, overlapped |-> FALSE, waited |-> FALSE]

MaxToolCalls == 2

ToolCalls == 1..MaxToolCalls

NoCalls == [c \in ToolCalls |-> NoCall]

(***************************************************************************)
(* The sandbox executors                                                   *)
(*                                                                         *)
(* IsolatedVMExecutor and QuickJSExecutor run agent code in a runtime made *)
(* for the call.  Of the sandbox's global object the model follows the     *)
(* names in GlobalNames; a value is a string, Unbound for a name that has  *)
(* no binding (`typeof globalThis.leaked` is "undefined").                 *)
(***************************************************************************)
ISOLATED_VM == "isolated-vm"

\* The other IsolatedVMExecutor of the sources, which injects through
\* evalClosure and disposes the isolate without asking isDisposed first.
ISOLATED_VM_CLOSURE == "isolated-vm (evalClosure)"

QUICKJS == "quickjs"

IsolatedVMKinds == {ISOLATED_VM, ISOLATED_VM_CLOSURE}

ExecutorKinds == IsolatedVMKinds \cup {QUICKJS}

\* How the run of the code ends: it returns, it throws, the code does not
\* compile, the CPU time cap is exceeded, the memory cap is exhausted.
Outcomes == {"returned", "threw", "malformed", "timeout", "memory"}

\* On exhaustion of the memory limit isolated-vm disposes the isolate
\* itself; QuickJS fails the allocation and the context lives on.
runtimeDisposes(kind, outcome) == kind \in IsolatedVMKinds /\ outcome = "memory"

\* The `finally` of execute with the isolate disposed already or not:
\* whether the isolate is disposed afterwards and whether the block throws.
\* isolate.dispose() throws on a disposed isolate; the first executor asks
\* isolate.isDisposed first, QuickJSExecutor wraps both disposals in
\* try/catch.
finallyDispose(kind, isDisposed) ==
  [isDisposed |-> TRUE, threw |-> kind = ISOLATED_VM_CLOSURE /\ isDisposed]

GlobalNames == {"leaked", "spec"}

Unbound == "undefined"

DISPOSED == "disposed"

ORIGINAL == "original"

\* The host's objects that a call's globals are made from.
Host == [spec |-> ORIGINAL]

\* The global object of the context made for one call, once the data
\* globals are injected: search passes { spec }, execute passes the
\* namespace client, whose `request` is a host function, and the
\* executors' own tests pass {}.  A data global enters as a copy
\* (JSON text evaluated inside, or ExternalCopy), so that a write inside
\* reaches the context only.
newContext(op, host) ==
  [n \in GlobalNames |-> IF n = "spec" /\ op = "search" THEN host.spec ELSE Unbound]

\* isolate.dispose() / vm.dispose(): nothing of the context is left.
NoContext == [n \in GlobalNames |-> DISPOSED]

\* console.log, console.warn and console.error called with one line: the
\* host's `logs` array afterwards.  IsolatedVMExecutor binds all three to a
\* host callback that pushes the line; QuickJSExecutor binds them to
\* `() => {}` and has no such array.
console(kind, logs, line) ==
  IF kind \in IsolatedVMKinds THEN Append(logs, line) ELSE logs

\* The `logs` field of the ExecuteResult.
returnedLogs(kind, logs) == IF kind \in IsolatedVMKinds THEN logs ELSE <<>>

NoObservation == [stmt |-> "none", name |-> "", seen |-> ""]

NoExecutorResult ==
  [settled |-> FALSE, rejected |-> FALSE, failed |-> FALSE, hasResult |-> FALSE,
   outcome |-> "none", logs |-> <<>>]

NoEarlierCall == [ran |-> FALSE, failed |-> FALSE, wrote |-> {}, requests |-> 0]

NoExecutor ==
  [kind |-> "none", pc |-> "none", executed |-> 0, op |-> "none",
   context |-> NoContext, logs |-> <<>>, steps |-> 0, requests |-> 0,
   wrote |-> {}, obs |-> NoObservation, host |-> Host, isDisposed |-> TRUE,
   out |-> NoExecutorResult, earlier |-> NoEarlierCall]

\* createRequestBridge: the closure's constants.
maxRequests == OrDefault(cfg.maxRequests, DEFAULT_MAX_REQUESTS)

maxResponseBytes == OrDefault(cfg.maxResponseBytes, DEFAULT_MAX_RESPONSE_BYTES)

\* new CodeMode(options): one bridge is created here, with requestCount = 0,
\* and kept in this.requestBridge.
InitState(c, m) ==
  /\ cfg = c
  /\ menu = m
  /\ requestCount = 0
  /\ invoked = 0
  /\ handlerCalls = 0
  /\ inflight = [k \in Callers |-> 0]
  /\ last = NoLast
  /\ pc = [k \in Calls |-> "idle"]
  /\ issued = [k \in Callers |-> 0]
  /\ limited = [k \in Callers |-> FALSE]
  /\ startCount = [k \in Calls |-> 0]
  /\ beganOverlapped = [k \in Calls |-> FALSE]
  /\ escaped = [k \in Calls |-> NoError]
  /\ result = [k \in Calls |-> NoResult]
  /\ rd = IdleReader
  /\ rs = NoSpecRun
  /\ cm = NoCodeMode
  /\ ex = NoExecutor
  /\ tc = NoCalls

(***************************************************************************)
(* The bridge closure                                                      *)
(***************************************************************************)
\* One invocation of the closure by caller c, up to `await handler(...)`.
Invocation(c, opts) ==
  LET r == bridgeAdmit(requestCount, maxRequests, cfg.allowedHeaders, opts)
  IN  /\ invoked < maxRequests + Overshoot
      /\ inflight[c] < MaxInFlight
      /\ requestCount' = r.count
      /\ invoked' = invoked + 1
      /\ issued' = [issued EXCEPT ![c] = @ + 1]
      /\ limited' = [limited EXCEPT ![c] = @ \/ r.err.kind = "Request limit exceeded"]
      /\ handlerCalls' = IF r.err = NoError THEN handlerCalls + 1 ELSE handlerCalls
      /\ inflight' = IF r.err = NoError THEN [inflight EXCEPT ![c] = @ + 1] ELSE inflight
      /\ last' = [phase |-> IF r.err = NoError THEN "awaiting" ELSE "thrown",
                  call |-> c, idx |-> invoked + 1, opts |-> opts, err |-> r.err,
                  init |-> r.init, response |-> NoResponse]

\* The rest of the closure, once the handler's response is there: the body
\* is read under the size limit.
Settlement(c, response) ==
  LET r == readResponseWithLimit(response, maxResponseBytes)
  IN  /\ inflight[c] > 0
      /\ inflight' = [inflight EXCEPT ![c] = @ - 1]
      /\ last' = [phase |-> "settled", call |-> c, idx |-> 0, opts |-> NoOpts,
                  err |-> r.err, init |-> NoInit, response |-> response]
      /\ UNCHANGED <<requestCount, invoked, handlerCalls, issued, limited>>

\* A test or embedder calls the closure directly.
BridgeInvoke(opts) ==
  /\ Invocation(Direct, opts)
  /\ UNCHANGED <<cfg, menu, callVars, rd, rs, cm, ex, tc>>

BridgeSettle(response) ==
  /\ Settlement(Direct, response)
  /\ UNCHANGED <<cfg, menu, callVars, rd, rs, cm, ex, tc>>

(***************************************************************************)
(* CodeMode.execute                                                        *)
(***************************************************************************)
\* formatResult, as far as the error flag goes.
formatResult(error) ==
  IF error # NoError THEN [isError |-> TRUE, err |-> error]
                     ELSE [isError |-> FALSE, err |-> NoError]

\* execute(code): the executor is there, the client wraps this.requestBridge
\* (the closure made by the constructor) and the sandbox run starts.
ExecuteBegin(c) ==
  /\ pc[c] = "idle"
  /\ pc' = [pc EXCEPT ![c] = "running"]
  /\ startCount' = [startCount EXCEPT ![c] = requestCount]
  /\ beganOverlapped' = [beganOverlapped EXCEPT ![c] = \E d \in Calls : pc[d] = "running"]
  /\ UNCHANGED <<cfg, menu, bridgeVars, escaped, result, rd, rs, cm, ex, tc>>

\* The agent code calls <namespace>.request(opts); an error the closure
\* throws is caught by the agent code or escapes it.
AgentRequest(c, opts, caught) ==
  /\ pc[c] = "running"
  /\ escaped[c] = NoError
  /\ Invocation(c, opts)
  /\ escaped' = [escaped EXCEPT ![c] = IF caught THEN NoError ELSE last'.err]
  /\ UNCHANGED <<cfg, menu, pc, startCount, beganOverlapped, result, rd, rs, cm, ex, tc>>

AgentResponse(c, response, caught) ==
  /\ Settlement(c, response)
  /\ escaped' = [escaped EXCEPT ![c] =
                   IF caught \/ pc[c] # "running" \/ @ # NoError THEN @ ELSE last'.err]
  /\ UNCHANGED <<cfg, menu, pc, startCount, beganOverlapped, result, rd, rs, cm, ex, tc>>

\* The sandbox run ends and execute returns formatResult(result).
ExecuteReturn(c) ==
  /\ pc[c] = "running"
  /\ escaped[c] # NoError \/ inflight[c] = 0
  /\ pc' = [pc EXCEPT ![c] = "done"]
  /\ result' = [result EXCEPT ![c] = formatResult(escaped[c])]
  /\ UNCHANGED <<cfg, menu, bridgeVars, startCount, beganOverlapped, escaped, rd, rs, cm, ex, tc>>

(***************************************************************************)
(* Inputs                                                                  *)
(***************************************************************************)
GET == <<"G","E","T">>

Request(method, path) ==
  [method |-> method, path |-> path, headers |-> EmptyHeaders, hasBody |-> FALSE]

\* What the agent code of the orchestrator runs passes: a valid request, a
\* lower-case method, an unknown method and a protocol-relative path.
OrchMenu ==
  { Request(GET, <<"/", "a">>), Request(<<"g","e","t">>, <<"/", "b">>),
    Request(<<"T","R","A","C","E">>, <<"/", "a">>), Request(GET, <<"/", "/", "a">>) }

Responses ==
  { [stream |-> TRUE, chunks |-> <<1>>], [stream |-> TRUE, chunks |-> <<2, 2>>],
    [stream |-> FALSE, chunks |-> <<>>] }

MaxN == 2

Config(n, b) == [maxRequests |-> n, maxResponseBytes |-> b, allowedHeaders |-> NoSetOpt]

OrchConfigs == { Config(Some(n), Some(3)) : n \in 1..MaxN }

(***************************************************************************)
(* Spec: one orchestrator, MaxCalls execute calls that may overlap         *)
(***************************************************************************)
Init == \E c \in OrchConfigs : InitState(c, OrchMenu)

Next ==
  \/ \E c \in Calls : ExecuteBegin(c)
  \/ \E c \in Calls, opts \in menu, caught \in BOOLEAN : AgentRequest(c, opts, caught)
  \/ \E c \in Calls, response \in Responses, caught \in BOOLEAN :
       AgentResponse(c, response, caught)
  \/ \E c \in Calls : ExecuteReturn(c)

Spec == Init /\ [][Next]_vars

(***************************************************************************)
(* SpecBridge: one bridge closure invoked directly, as the bridge's own    *)
(* tests do, under every maxRequests option including the default          *)
(***************************************************************************)
BridgeConfigs ==
  { Config(n, Some(3)) : n \in {NoOpt} \cup { Some(k) : k \in 0..MaxN } }

InitBridge == \E c \in BridgeConfigs : InitState(c, OrchMenu)

NextBridge ==
  \/ \E opts \in menu : BridgeInvoke(opts)
  \/ \E response \in Responses : BridgeSettle(response)

SpecBridge == InitBridge /\ [][NextBridge]_vars

(***************************************************************************)
(* SpecPath: the closure invoked with one path out of every string of at   *)
(* most MaxPathLen characters over PathChars                               *)
(***************************************************************************)
MaxPathLen == 4

PathChars == {"/", ":", "a", NUL, CR, LF, BSL}

Paths == UNION { [1..n -> PathChars] : n \in 0..MaxPathLen }

InitPath ==
  \E p \in Paths, m \in {GET, <<"p","u","t">>} :
    InitState(Config(Some(1), Some(3)), {Request(m, p)})

SpecPath == InitPath /\ [][NextBridge]_vars

(***************************************************************************)
(* SpecHeaders: the closure invoked with one headers object of at most     *)
(* MaxHeaders entries, with and without a body, in both filter modes       *)
(***************************************************************************)
MaxHeaders == 2

HeaderNames ==
  { <<"A","u","t","h","o","r","i","z","a","t","i","o","n">>,
    <<"C","O","O","K","I","E">>,
    <<"h","o","s","t">>,
    <<"O","r","i","g","i","n">>,
    <<"r","e","f","e","r","e","r">>,
    <<"X","-","F","o","r","w","a","r","d","e","d","-","F","o","r">>,
    <<"x","-","f","o","r","w","a","r","d","e","d","-">>,
    <<"X","-","R","e","a","l","-","I","P">>,
    <<"x","-","c","l","i","e","n","t","-","i","p">>,
    <<"C","F","-","C","o","n","n","e","c","t","i","n","g","-","I","P">>,
    <<"T","r","u","e","-","C","l","i","e","n","t","-","I","p">>,
    <<"P","r","o","x","y","-","A","u","t","h","o","r","i","z","a","t","i","o","n">>,
    <<"T","r","a","n","s","f","e","r","-","E","n","c","o","d","i","n","g">>,
    <<"c","o","n","n","e","c","t","i","o","n">>,
    <<"U","p","g","r","a","d","e">>,
    <<"T","E">>,
    <<"a","c","c","e","p","t">>,
    <<"x","-","c","u","s","t","o","m">>,
    <<"h","o","s","t","n","a","m","e">>,
    <<"t","e","a">>,
    <<"x","-","f","o","r","w","a","r","d","e","d">>,
    <<"C","o","n","t","e","n","t","-","T","y","p","e">>,
    <<"c","o","n","t","e","n","t","-","t","y","p","e">>,
    <<"x","-","t","e">>,
    <<"c","o","o","k","i","e","s">> }

HeaderValues == {"v1", "v2"}

\* The subsets of S with at most k elements.
RECURSIVE SubsetsUpTo(_, _)
SubsetsUpTo(S, k) ==
  IF k = 0 THEN {{}}
  ELSE LET smaller == SubsetsUpTo(S, k - 1)
       IN  smaller \cup { T \cup {x} : T \in smaller, x \in S }

HeaderObjects ==
  { [k \in S |-> v] : S \in SubsetsUpTo(HeaderNames, MaxHeaders), v \in HeaderValues }

HeaderConfigs ==
  { [maxRequests |-> Some(1), maxResponseBytes |-> Some(3), allowedHeaders |-> a] :
      a \in { NoSetOpt,
              [has |-> TRUE, v |-> { <<"a","c","c","e","p","t">>, ContentTypeKey }] } }

InitHeaders ==
  \E c \in HeaderConfigs, h \in HeaderObjects, b \in BOOLEAN :
    InitState(c, {[method |-> GET, path |-> <<"/", "a">>, headers |-> h, hasBody |-> b]})

SpecHeaders == InitHeaders /\ [][NextBridge]_vars

(***************************************************************************)
(* SpecRead: readResponseWithLimit on one response, one await at a time    *)
(***************************************************************************)
MaxChunks == 3

MaxChunkBytes == 3

MaxLimit == 4

ChunkLists == UNION { [1..n -> 0..MaxChunkBytes] : n \in 0..MaxChunks }

ReadResponses ==
  { [stream |-> TRUE, chunks |-> cl] : cl \in ChunkLists }
    \cup { [stream |-> FALSE, chunks |-> <<>>] }

\* const text = await readResponseWithLimit(response, maxResponseBytes)
ReadBegin(response) ==
  /\ rd.pc = "idle"
  /\ rd' = readStart(response, maxResponseBytes)
  /\ UNCHANGED <<cfg, menu, bridgeVars, callVars, rs, cm, ex, tc>>

\* One iteration of the read loop.
ReadChunk ==
  /\ rd.pc = "reading"
  /\ rd' = readStep(rd)
  /\ UNCHANGED <<cfg, menu, bridgeVars, callVars, rs, cm, ex, tc>>

InitRead ==
  \E b \in 0..MaxLimit : InitState(Config(Some(1), Some(b)), {Request(GET, <<"/", "a">>)})

NextRead ==
  \/ \E response \in ReadResponses : ReadBegin(response)
  \/ ReadChunk

SpecRead == InitRead /\ [][NextRead]_vars

(***************************************************************************)
(* Claims about the request counter                                        *)
(***************************************************************************)
\* C1: after any execute call returns, the next execute call on the same
\* orchestrator begins with a request counter of 0, so that it is refused
\* with "Request limit exceeded" only for requests beyond its own first
\* maxRequests.
C1_CounterResetsPerExecute ==
  \A c \in Calls :
    (pc[c] # "idle" /\ ~beganOverlapped[c]) =>
      /\ startCount[c] = 0
      /\ limited[c] => issued[c] > maxRequests

\* A request is otherwise valid: its method and path pass.
ValidRequest(opts) ==
  /\ toUpperCase(opts.method) \in ALLOWED_METHODS
  /\ validatePath(opts.path) = NoError

\* The N of "maxRequests = N (default 50)".
ConfiguredN == IF cfg.maxRequests.has THEN cfg.maxRequests.v ELSE 50

C3_OverlappingCallsOwnCounter ==
  (\A d \in Calls : pc[d] # "done") =>
    \A c \in Calls : limited[c] => issued[c] > maxRequests

(***************************************************************************)
(* Claims about what the bridge lets through                               *)
(***************************************************************************)
\* The path rule in the claim's words: exactly one leading "/", and no
\* "://", null byte, CR, LF or backslash anywhere.
PathRule(p) ==
  /\ Len(p) >= 1
  /\ p[1] = "/"
  /\ Len(p) >= 2 => p[2] # "/"
  /\ ~\E i \in 1..Len(p) : i + 2 <= Len(p) /\ p[i] = ":" /\ p[i + 1] = "/" /\ p[i + 2] = "/"
  /\ \A i \in 1..Len(p) : p[i] \notin {NUL, CR, LF, BSL}

\* C4: with an allowed method and request budget remaining, the bridge
\* accepts a path iff it starts with exactly one "/" and contains no "://",
\* null byte, CR, LF or backslash; every other path is rejected with an
\* "Invalid path" error.
C4_PathAcceptedIffRule ==
  ( /\ last.phase \in {"awaiting", "thrown"}
    /\ last.idx <= maxRequests
    /\ toUpperCase(last.opts.method) \in ALLOWED_METHODS ) =>
      IF PathRule(last.opts.path)
        THEN last.phase = "awaiting" /\ last.err = NoError
        ELSE last.phase = "thrown" /\ last.err.kind = "Invalid path"

\* A path with one leading "/" is rejected for its backslash.
C4_Witness ==
  /\ last.phase = "thrown"
  /\ last.opts.path = <<"/", "a", BSL>>
  /\ last.err.kind = "Invalid path"

\* The index of the first chunk at which the running total exceeds the cap
\* (0 when it never does).
FirstCrossing(chunks, cap) ==
  IF \E i \in 1..Len(chunks) : SumSeq(Prefix(chunks, i)) > cap
    THEN CHOOSE i \in 1..Len(chunks) :
           /\ SumSeq(Prefix(chunks, i)) > cap
           /\ \A j \in 1..(i - 1) : SumSeq(Prefix(chunks, j)) <= cap
    ELSE 0

ClaimExactNames ==
  { <<"a","u","t","h","o","r","i","z","a","t","i","o","n">>,
    <<"c","o","o","k","i","e">>,
    <<"h","o","s","t">>,
    <<"o","r","i","g","i","n">>,
    <<"r","e","f","e","r","e","r">>,
    <<"x","-","r","e","a","l","-","i","p">>,
    <<"x","-","c","l","i","e","n","t","-","i","p">>,
    <<"c","f","-","c","o","n","n","e","c","t","i","n","g","-","i","p">>,
    <<"t","r","u","e","-","c","l","i","e","n","t","-","i","p">>,
    <<"t","r","a","n","s","f","e","r","-","e","n","c","o","d","i","n","g">>,
    <<"c","o","n","n","e","c","t","i","o","n">>,
    <<"u","p","g","r","a","d","e">>,
    <<"t","e">> }

ClaimBlocked(name) ==
  LET lower == toLowerCase(name)
  IN  \/ lower \in ClaimExactNames
      \/ startsWith(lower, <<"x","-","f","o","r","w","a","r","d","e","d","-">>)
      \/ startsWith(lower, <<"p","r","o","x","y","-">>)

\* C6: in blocklist mode the headers passed to the handler never contain a
\* caller header whose name matches the blocklist in any letter case, and
\* every other caller header is passed with its value unchanged.
C6_BlocklistFilter ==
  (last.phase = "awaiting" /\ ~cfg.allowedHeaders.has) =>
    \A k \in DOMAIN last.opts.headers :
      IF ClaimBlocked(k)
        THEN k \notin DOMAIN last.init.headers
        ELSE /\ k \in DOMAIN last.init.headers
             /\ last.init.headers[k] = last.opts.headers[k]

\* A mixed-case Authorization header is dropped and accept is passed on.
C6_Witness ==
  /\ last.phase = "awaiting"
  /\ ~cfg.allowedHeaders.has
  /\ DOMAIN last.opts.headers =
       { <<"A","u","t","h","o","r","i","z","a","t","i","o","n">>, <<"a","c","c","e","p","t">> }
  /\ DOMAIN last.init.headers = { <<"a","c","c","e","p","t">> }

(***************************************************************************)
(* SpecRefs: resolveRefs and processSpec, each applied to one document     *)
(***************************************************************************)
Ref(p) == Obj(<< <<"$ref", Str(p)>> >>)

\* The pointers schema bodies use, and all the pointers of the documents.
BodyRefs == {"#/A", "#/B", "#/__proto__/polluted"}

AllRefs == BodyRefs \cup {"#/A/x", "#/missing", "#/A/constructor/x"}

\* An object with the three dangerous keys as own keys (as JSON.parse
\* yields them).
DangerObj ==
  Obj(<< <<"safe", Str("yes")>>, <<"__proto__", Str("polluted")>>,
         <<"constructor", Str("bad")>>, <<"prototype", Ref("#/A")>> >>)

Bodies ==
  {Str("s"), DangerObj}
    \cup { Ref(p) : p \in BodyRefs }
    \cup { Obj(<< <<"x", Ref(p)>> >>) : p \in BodyRefs }
    \cup { Obj(<< <<"x", Ref(p)>>, <<"y", Ref(q)>> >>) : p \in BodyRefs, q \in BodyRefs }

Roots == { Obj(<< <<"A", a>>, <<"B", b>> >>) : a \in Bodies, b \in Bodies }

Nodes ==
  Bodies
    \cup { Arr(<<Ref(p), Ref(q)>>) : p \in BodyRefs, q \in BodyRefs }
    \cup { Ref(p) : p \in AllRefs }
    \cup { Obj(<< <<"x", Ref(p)>> >>) : p \in AllRefs }

MaxTestDepth == 2

Depths == 0..MaxTestDepth \cup {DEFAULT_MAX_REF_DEPTH}

\* Documents for processSpec.
Present(entries) == SelectSeq(entries, LAMBDA e : e[2] # Undef)

TagChoices ==
  { Undef, Arr(<<Str("pets")>>), Obj(<< <<"constructor", Str("t")>> >>) }

ResponseChoices ==
  { Undef,
    Obj(<< <<"200", Ref("#/A")>> >>),
    Obj(<< <<"200", Ref("#/__proto__/polluted")>> >>),
    Obj(<< <<"200", Ref("#/A")>>, <<"404", Ref("#/B")>> >>),
    Obj(<< <<"404", Ref("#/B")>>, <<"500", DangerObj>> >>) }

Operations ==
  { Obj(Present(<< <<"summary", Str("Get")>>, <<"tags", t>>,
                   <<"parameters", p>>, <<"responses", r>> >>)) :
      t \in TagChoices, p \in {Undef, Arr(<<Ref("#/B")>>)}, r \in ResponseChoices }

PathItems ==
  { Obj(<< <<"get", op>> >>) : op \in Operations } \cup {Null}

PathKeys == {"/pet", "/pet/{id}", "constructor", "__proto__", "prototype"}

FixedItem == Obj(<< <<"summary", Str("item")>>, <<"delete", Obj(<< <<"summary", Str("Del")>> >>)>> >>)

PathsObjects ==
  { Obj(<< <<k, i>> >>) : k \in PathKeys, i \in PathItems }
    \cup { Obj(<< <<k, i>>, <<"/store", FixedItem>> >>) : k \in PathKeys, i \in PathItems }

ServerChoices ==
  { Undef,
    Arr(<< Obj(<< <<"url", Str("/api/")>> >>) >>),
    Arr(<< Obj(<< <<"url", Str("https://x.io")>> >>) >>),
    Arr(<< Obj(<< <<"url", Str("https://x.io/v3//")>> >>) >>) }

Documents ==
  { Obj(Present(<< <<"servers", s>>, <<"paths", p>>,
                   <<"A", Obj(<< <<"x", Ref("#/B")>> >>)>>,
                   <<"B", Obj(<< <<"x", Ref("#/A")>> >>)>> >>)) :
      s \in ServerChoices, p \in PathsObjects }

\* Documents for extractTags: up to two path items, each with a get and
\* perhaps a post operation, each with up to MaxTags tags.
MaxTags == 2

TagNames == {"alpha", "beta", "gamma"}

TagLists ==
  UNION { { Arr([i \in 1..n |-> Str(f[i])]) : f \in [1..n -> TagNames] } : n \in 0..MaxTags }

TaggedOperations == { Obj(Present(<< <<"tags", t>> >>)) : t \in TagLists \cup {Undef} }

PostOperations ==
  { Obj(<< <<"tags", Arr(<<Str(a)>>)>> >>) : a \in TagNames }

TaggedItems ==
  { Obj(<< <<"get", g>> >>) : g \in TaggedOperations }
    \cup { Obj(<< <<"get", g>>, <<"post", q>> >>) : g \in TaggedOperations, q \in PostOperations }

TagDocuments ==
  { Obj(<<>>), Obj(<< <<"paths", Null>> >>), Obj(<< <<"paths", Obj(<<>>)>> >>),
    Obj(<< <<"paths", Obj(<< <<"/a", Null>> >>)>> >>) }
    \cup { Obj(<< <<"paths", Obj(<< <<"/a", i>> >>)>> >>) : i \in TaggedItems }
    \cup { Obj(<< <<"paths", Obj(<< <<"/a", i>>, <<"/b", j>> >>)>> >>) :
             i \in TaggedItems, j \in TaggedItems }

SpecRun(kind, root, obj, maxDepth) ==
  [pc |-> "ready", kind |-> kind, root |-> root, obj |-> obj, maxDepth |-> maxDepth,
   out |-> Undef, log |-> <<>>, again |-> Undef]

\* resolveRefs(obj, root, undefined, maxDepth): a fresh seen and memo.
ResolveRefsCall ==
  /\ rs.pc = "ready"
  /\ rs.kind = "resolveRefs"
  /\ LET r == resolveRefs(rs.obj, rs.root, {}, rs.maxDepth, NoMemo)
     IN  rs' = [rs EXCEPT !.pc = "done", !.out = r.v, !.log = r.st.log]
  /\ UNCHANGED <<cfg, menu, bridgeVars, callVars, rd, cm, ex, tc>>

\* processSpec(spec, maxRefDepth)
ProcessSpecCall ==
  /\ rs.pc = "ready"
  /\ rs.kind = "processSpec"
  /\ rs' = [rs EXCEPT !.pc = "done", !.out = processSpec(rs.root, rs.maxDepth)]
  /\ UNCHANGED <<cfg, menu, bridgeVars, callVars, rd, cm, ex, tc>>

\* processSpec(processed, maxRefDepth): the output processed once more.
ProcessSpecAgain ==
  /\ rs.pc = "done"
  /\ rs.kind = "processSpec"
  /\ rs' = [rs EXCEPT !.pc = "again", !.again = processSpec(rs.out, rs.maxDepth)]
  /\ UNCHANGED <<cfg, menu, bridgeVars, callVars, rd, cm, ex, tc>>

\* extractTags(spec)
ExtractTagsCall ==
  /\ rs.pc = "ready"
  /\ rs.kind = "extractTags"
  /\ rs' = [rs EXCEPT !.pc = "done", !.out = extractTags(rs.root)]
  /\ UNCHANGED <<cfg, menu, bridgeVars, callVars, rd, cm, ex, tc>>

InitRefs ==
  /\ \/ \E doc \in TagDocuments :
          rs = SpecRun("extractTags", doc, Undef, DEFAULT_MAX_REF_DEPTH)
     \/ \E root \in Roots, obj \in Nodes, d \in Depths :
          rs = SpecRun("resolveRefs", root, obj, d)
     \/ \E doc \in Documents, d \in Depths :
          rs = SpecRun("processSpec", doc, Undef, d)
  /\ cfg = Config(NoOpt, NoOpt)
  /\ menu = {}
  /\ requestCount = 0
  /\ invoked = 0
  /\ handlerCalls = 0
  /\ inflight = [k \in Callers |-> 0]
  /\ last = NoLast
  /\ pc = [k \in Calls |-> "idle"]
  /\ issued = [k \in Callers |-> 0]
  /\ limited = [k \in Callers |-> FALSE]
  /\ startCount = [k \in Calls |-> 0]
  /\ beganOverlapped = [k \in Calls |-> FALSE]
  /\ escaped = [k \in Calls |-> NoError]
  /\ result = [k \in Calls |-> NoResult]
  /\ rd = IdleReader
  /\ cm = NoCodeMode
  /\ ex = NoExecutor
  /\ tc = NoCalls

NextRefs == ResolveRefsCall \/ ProcessSpecCall \/ ProcessSpecAgain \/ ExtractTagsCall

SpecRefs == InitRefs /\ [][NextRefs]_vars

(***************************************************************************)
(* Claims about the spec processor                                         *)
(***************************************************************************)
RunDone(kind) == rs.pc = "done" /\ rs.kind = kind

\* The $ref sites resolveRefs visited in the run.
Sites == { rs.log[i] : i \in 1..Len(rs.log) }

\* The index of the first dangerous segment of a pointer, 0 if it has none.
FirstDangerous(ref) ==
  LET parts == RefParts(ref)
      hits == { i \in 1..Len(parts) : parts[i] \in DANGEROUS_KEYS }
  IN  IF hits = {} THEN 0 ELSE CHOOSE i \in hits : \A j \in hits : i <= j

\* The tree a site holds when every $ref below it is resolved afresh from
\* its own ancestor chain: the target's value, { $circular } for a ref
\* that is its own ancestor, the error marker for an unsafe pointer.
RECURSIVE FreshValue(_, _, _)
FreshValue(obj, root, seen) ==
  IF obj.t = "arr"
    THEN Arr([i \in 1..Len(obj.v) |-> FreshValue(obj.v[i][2], root, seen)])
  ELSE IF obj.t # "obj" THEN obj
  ELSE IF HasStringRef(obj)
    THEN LET ref == Get(obj, "$ref").s
         IN  IF ref \in seen THEN Circular(ref)
             ELSE IF FirstDangerous(ref) # 0 THEN UnsafeRef(ref)
             ELSE FreshValue(walk(root, RefParts(ref), 0).v, root, seen \cup {ref})
  ELSE LET kept == SelectSeq(obj.v, LAMBDA e : e[1] \notin DANGEROUS_KEYS)
       IN  Obj([i \in 1..Len(kept) |-> <<kept[i][1], FreshValue(kept[i][2], root, seen)>>])

\* C7: with maxRefDepth out of reach, every $ref site of the output holds
\* the target's value resolved along the site's own ancestor chain, and
\* { $circular: r } exactly where r is among its own ancestors.
C7_RefSitesHoldTargetValue ==
  (RunDone("resolveRefs") /\ rs.maxDepth = DEFAULT_MAX_REF_DEPTH) =>
    \A e \in Sites : e.v = FreshValue(Ref(e.ref), rs.root, e.seen)

\* Two sites are siblings at equal depth when they hold the same $ref under
\* the same ancestor chain.
SiblingPairs ==
  { <<i, j>> \in (1..Len(rs.log)) \X (1..Len(rs.log)) :
      /\ i < j
      /\ rs.log[i].ref = rs.log[j].ref
      /\ rs.log[i].seen = rs.log[j].seen }

\* C8: of two sibling sites holding the same $ref, the second holds the
\* same resolved value as the first, and never a $circular marker the
\* first does not hold.
C8_SiblingRefsBothResolved ==
  RunDone("resolveRefs") =>
    \A p \in SiblingPairs :
      /\ rs.log[p[2]].v = rs.log[p[1]].v
      /\ rs.log[p[2]].kind = "circular" => rs.log[p[1]].kind = "circular"

C8_Witness ==
  /\ RunDone("resolveRefs")
  /\ rs.obj = Arr(<<Ref("#/A"), Ref("#/A")>>)
  /\ \E p \in SiblingPairs :
       /\ rs.log[p[1]].kind = "resolved"
       /\ rs.log[p[2]].kind = "cached"
       /\ rs.log[p[1]].seen = {}
       /\ rs.log[p[2]].v = Obj(<< <<"x", Obj(<< <<"x", Circular("#/A")>> >>)>> >>)

\* An own key of some object of the value is a dangerous one.
RECURSIVE HasDangerousKey(_)
HasDangerousKey(x) ==
  /\ x.t \in {"arr", "obj"}
  /\ \E i \in 1..Len(x.v) :
       \/ x.t = "obj" /\ x.v[i][1] \in DANGEROUS_KEYS
       \/ HasDangerousKey(x.v[i][2])

\* C9: no object of a value returned by resolveRefs or processSpec has
\* __proto__, constructor or prototype as an own key.
C9_NoDangerousOwnKey ==
  rs.pc = "done" => ~HasDangerousKey(rs.out)

\* C10 as stated: every site whose pointer has a dangerous segment holds
\* exactly { $ref, $error: "unsafe ref path" }, and the root was read only
\* for the segments before the dangerous one.
C10_UnsafeRefAlwaysRejected ==
  RunDone("resolveRefs") =>
    \A e \in Sites :
      FirstDangerous(e.ref) # 0 =>
        /\ e.v = UnsafeRef(e.ref)
        /\ e.steps = FirstDangerous(e.ref) - 1

\* C10, amended: a site whose pointer has a dangerous segment, met while
\* the ancestor chain holds fewer than maxRefDepth refs, holds exactly
\* { $ref, $error: "unsafe ref path" } and the root was read only for the
\* segments before the dangerous one; met when the chain already holds
\* maxRefDepth refs, the site holds the max-depth marker and the root was
\* not read at all.
C10_UnsafeRefRejectedBelowMaxDepth ==
  RunDone("resolveRefs") =>
    \A e \in Sites :
      FirstDangerous(e.ref) # 0 =>
        IF Cardinality(e.seen) < rs.maxDepth
          THEN /\ e.v = UnsafeRef(e.ref)
               /\ e.steps = FirstDangerous(e.ref) - 1
          ELSE /\ e.v = MaxDepthExceeded(e.ref)
               /\ e.steps = 0

C10_Witness ==
  /\ RunDone("resolveRefs")
  /\ Get(rs.root, "A") = DangerObj
  /\ rs.obj = Ref("#/A/constructor/x")
  /\ rs.out = UnsafeRef("#/A/constructor/x")
  /\ \E e \in Sites : e.kind = "unsafe" /\ e.steps = 1

\* The base path the documents' servers declare: the pathname of
\* servers[0].url without its trailing slashes.
DeclaredBasePath(doc) ==
  LET servers == Get(doc, "servers")
      url == Get(Items(servers)[1], "url").s
  IN  IF servers.t # "arr" THEN ""
      ELSE CASE url = "/api/" -> "/api"
             [] url = "https://x.io" -> ""
             [] url = "https://x.io/v3//" -> "/v3"

InputPathKeys == Keys(Get(rs.root, "paths"))

OutputPathKeys == Keys(Get(rs.out, "paths"))

\* C11 as stated: the output path keys are exactly basePath + p for the
\* keys p of the input paths, and with a non-empty base path no input key
\* is an output key.
C11_PathKeysArePrefixedInputKeys ==
  RunDone("processSpec") =>
    /\ OutputPathKeys = { DeclaredBasePath(rs.root) \o p : p \in InputPathKeys }
    /\ DeclaredBasePath(rs.root) # "" => OutputPathKeys \cap InputPathKeys = {}

\* C11, amended: the output path keys are exactly basePath + p for the
\* keys p of the input paths whose path item is not null (or otherwise
\* falsy) and whose full path is not "__proto__"; with a non-empty base
\* path no input key is an output key.
C11_PathKeysArePrefixedLiveInputKeys ==
  RunDone("processSpec") =>
    /\ OutputPathKeys =
         { DeclaredBasePath(rs.root) \o p :
             p \in { q \in InputPathKeys :
                       /\ Truthy(Get(Get(rs.root, "paths"), q))
                       /\ DeclaredBasePath(rs.root) \o q # "__proto__" } }
    /\ DeclaredBasePath(rs.root) # "" => OutputPathKeys \cap InputPathKeys = {}

C11_Witness ==
  /\ RunDone("processSpec")
  /\ InputPathKeys = {"/pet", "/store"}
  /\ DeclaredBasePath(rs.root) = "/v3"
  /\ OutputPathKeys = {"/v3/pet", "/v3/store"}

\* C12: processing the output of processSpec once more returns that
\* output: same path keys, operations and resolved fields, markers
\* included.
C12_ProcessSpecIdempotent ==
  rs.pc = "again" => rs.again = rs.out

C12_Witness ==
  /\ rs.pc = "again"
  /\ DeclaredBasePath(rs.root) = "/v3"
  /\ OutputPathKeys = {"/v3/pet", "/v3/store"}
  /\ LET op == Get(Get(Get(rs.again, "paths"), "/v3/pet"), "get")
     IN  /\ Get(op, "parameters") =
              Arr(<< Obj(<< <<"x", Obj(<< <<"x", Circular("#/B")>> >>)>> >>) >>)
         /\ Get(op, "responses") =
              Obj(<< <<"200", UnsafeRef("#/__proto__/polluted")>> >>)

\* The occurrences of tags in the document of the run: <<path, method,
\* position>> of each tag of each operation of each path item.
TagOccurrences ==
  LET paths == Get(rs.root, "paths")
  IN  { o \in Keys(paths) \X {"get", "post", "put", "patch", "delete"} \X (1..(MaxTags + 1)) :
          LET tags == Get(Get(Get(paths, o[1]), o[2]), "tags")
          IN  tags.t = "arr" /\ o[3] <= Len(tags.v) }

TagAt(o) == Items(Get(Get(Get(Get(rs.root, "paths"), o[1]), o[2]), "tags"))[o[3]].s

TagCount(tag) == Cardinality({ o \in TagOccurrences : TagAt(o) = tag })

\* C13: extractTags returns every tag of the document exactly once, a tag
\* with more occurrences before a tag with fewer, and the empty list for
\* a document without paths.
C13_TagsUniqueByDescendingCount ==
  RunDone("extractTags") =>
    LET out == Items(rs.out)
    IN  /\ rs.out.t = "arr"
        /\ { out[i].s : i \in 1..Len(out) } = { TagAt(o) : o \in TagOccurrences }
        /\ \A i, j \in 1..Len(out) : i < j =>
             /\ out[i] # out[j]
             /\ TagCount(out[i].s) >= TagCount(out[j].s)
        /\ Get(rs.root, "paths").t # "obj" => out = <<>>

C13_Witness ==
  /\ RunDone("extractTags")
  /\ Keys(Get(rs.root, "paths")) = {"/a", "/b"}
  /\ rs.out = Arr(<<Str("beta"), Str("gamma"), Str("alpha")>>)
  /\ TagCount("beta") = 3
  /\ TagCount("gamma") = 2
  /\ TagCount("alpha") = 1
  /\ TagAt(<<"/a", "get", 1>>) = "alpha"

(***************************************************************************)
(* SpecNamespace: new CodeMode({ namespace, ... })                         *)
(***************************************************************************)
MaxNamespaceLen == 3

NamespaceChars == {"a", "p", "M", "N", "_", "$", "2", "-", " "}

ShortNamespaces ==
  UNION { { [i \in 1..n |-> f[i]] : f \in [1..n -> NamespaceChars] } : n \in 0..MaxNamespaceLen }

\* The names of the namespace validation tests.
TestNamespaces ==
  { <<"1","2","3","a","b","c">>, <<"m","y","-","n","s">>, <<"m","y"," ","n","s">>,
    <<"a",".","b">>, <<"a","p","i">>, <<"c","n","a","p">>,
    <<"_","p","r","i","v","a","t","e">>, <<"$","a","p","p">>,
    <<"m","y","A","p","i","2">>, <<"O","b","j","e","c","t","s">>,
    <<"s","p","e","c","\n">> }

NamespaceOptions ==
  {NoNamespace}
    \cup { [has |-> TRUE, v |-> n] : n \in ShortNamespaces \cup TestNamespaces \cup RESERVED_NAMES }

SEARCH == <<"s", "e", "a", "r", "c", "h">>

EXECUTE == <<"e", "x", "e", "c", "u", "t", "e">>

\* The constructor, up to and including validateNamespace(this.namespace);
\* nothing after it throws.
Construct ==
  /\ cm.status = "new"
  /\ LET err == validateNamespace(namespaceOrDefault(cm.namespace))
     IN  cm' = [cm EXCEPT !.status = IF err = NoError THEN "ready" ELSE "threw",
                          !.err = err,
                          !.searchToolName = SEARCH,
                          !.executeToolName = EXECUTE]
  /\ UNCHANGED <<cfg, menu, bridgeVars, callVars, rd, rs, ex, tc>>

InitNamespace ==
  /\ \E o \in NamespaceOptions : cm = [NoCodeMode EXCEPT !.status = "new", !.namespace = o]
  /\ cfg = Config(NoOpt, NoOpt)
  /\ menu = {}
  /\ requestCount = 0
  /\ invoked = 0
  /\ handlerCalls = 0
  /\ inflight = [k \in Callers |-> 0]
  /\ last = NoLast
  /\ pc = [k \in Calls |-> "idle"]
  /\ issued = [k \in Callers |-> 0]
  /\ limited = [k \in Callers |-> FALSE]
  /\ startCount = [k \in Calls |-> 0]
  /\ beganOverlapped = [k \in Calls |-> FALSE]
  /\ escaped = [k \in Calls |-> NoError]
  /\ result = [k \in Calls |-> NoResult]
  /\ rd = IdleReader
  /\ rs = NoSpecRun
  /\ ex = NoExecutor
  /\ tc = NoCalls

NextNamespace == Construct

SpecNamespace == InitNamespace /\ [][NextNamespace]_vars

\* The namespace given to the constructor ("api" when none is given).
GivenNamespace == IF cm.namespace.has THEN cm.namespace.v ELSE <<"a", "p", "i">>

\* /^[A-Za-z_$][A-Za-z0-9_$]*$/ read position by position.
IsIdentifier(n) ==
  /\ Len(n) >= 1
  /\ \A i \in 1..Len(n) :
       \/ n[i] \in Letters \cup {"_", "$"}
       \/ i > 1 /\ n[i] \in Digits

\* The reserved names the statement spells out.
NamedReserved ==
  { <<"O","b","j","e","c","t">>, <<"A","r","r","a","y">>,
    <<"P","r","o","m","i","s","e">>, <<"c","o","n","s","o","l","e">>,
    <<"s","p","e","c">>, <<"g","l","o","b","a","l">> }

\* C14: the constructor throws "must be a valid JavaScript identifier" for
\* a namespace that is not an identifier, "conflicts with reserved name"
\* for a reserved one, and constructs for every other namespace.
C14_NamespaceValidation ==
  cm.status \in {"ready", "threw"} =>
    /\ ~IsIdentifier(GivenNamespace) =>
         /\ cm.status = "threw"
         /\ cm.err.detail = "must be a valid JavaScript identifier"
    /\ GivenNamespace \in NamedReserved \cup RESERVED_NAMES =>
         /\ cm.status = "threw"
         /\ cm.err.detail = "conflicts with reserved name"
    /\ (IsIdentifier(GivenNamespace) /\ GivenNamespace \notin RESERVED_NAMES) =>
         cm.status = "ready"

C14_Witness ==
  /\ cm.status = "threw"
  /\ cm.namespace = [has |-> TRUE, v |-> <<"2", "a", "p">>]
  /\ cm.err.detail = "must be a valid JavaScript identifier"

(***************************************************************************)
(* SpecTool: one CodeMode instance with an executor configured; calls of   *)
(* setToolNames, callTool, search and execute, one after the other         *)
(***************************************************************************)
UNKNOWN_TOOL ==
  <<"U", "n", "k", "n", "o", "w", "n", " ", "t", "o", "o", "l", ":", " ">>

NoSpecContext == [has |-> FALSE, tags |-> Arr(<<>>), endpointCount |-> 0]

\* A getProcessedSpec that builds the spec on every call.
getProcessedSpec_noCache(c, provided) ==
  IF provided = Undef
    THEN [cm |-> [c EXCEPT !.providerCalls = @ + 1], ok |-> FALSE, invoked |-> TRUE]
  ELSE LET processed == processSpec(provided, DEFAULT_MAX_REF_DEPTH)
       IN  [cm |-> [c EXCEPT !.providerCalls = @ + 1,
                             !.processCalls = @ + 1,
                             !.processedSpec = processed,
                             !.specContext =
                                [has |-> TRUE, tags |-> extractTags(provided),
                                 endpointCount |-> Cardinality(Keys(Get(provided, "paths")))],
                             !.first = IF c.first = Undef THEN processed ELSE c.first],
            ok |-> TRUE, invoked |-> TRUE]

\* getProcessedSpec(): the instance afterwards and whether it returned;
\* provided is what the spec provider does if it is invoked: it returns a
\* document or it throws.
getProcessedSpec(c, provided) ==
  IF Truthy(c.processedSpec) THEN [cm |-> c, ok |-> TRUE, invoked |-> FALSE]
  ELSE IF provided = Undef
    THEN [cm |-> [c EXCEPT !.providerCalls = @ + 1], ok |-> FALSE, invoked |-> TRUE]
  ELSE LET processed == processSpec(provided, DEFAULT_MAX_REF_DEPTH)
       IN  [cm |-> [c EXCEPT !.providerCalls = @ + 1,
                             !.processCalls = @ + 1,
                             !.processedSpec = processed,
                             !.specContext =
                                [has |-> TRUE, tags |-> extractTags(provided),
                                 endpointCount |-> Cardinality(Keys(Get(provided, "paths")))],
                             !.first = IF c.first = Undef THEN processed ELSE c.first],
            ok |-> TRUE, invoked |-> TRUE]

\* search(code): the instance afterwards, its latest call filled in.
search(c, op, tool, provided, res) ==
  LET g == getProcessedSpec(c, provided)
      call == [op |-> op, tool |-> tool, searchName |-> c.searchToolName,
               executeName |-> c.executeToolName, ran |-> "search",
               provided |-> IF ~g.invoked THEN "none"
                            ELSE IF g.ok THEN "returned" ELSE "threw",
               raw |-> IF g.invoked THEN provided ELSE Undef,
               injected |-> Undef, res |-> NoExecuteResult, out |-> Rejected]
  IN  IF ~g.ok THEN [g.cm EXCEPT !.searches = @ + 1, !.call = call]
      ELSE [g.cm EXCEPT !.searches = @ + 1,
                        !.call = [call EXCEPT !.injected = g.cm.processedSpec,
                                              !.res = res,
                                              !.out = CodeMode_formatResult(res, c.maxResponseTokens)]]

\* execute(code): the sandbox gets the client under the namespace, no spec.
execute(c, op, tool, res) ==
  [c EXCEPT !.call = [op |-> op, tool |-> tool, searchName |-> c.searchToolName,
                      executeName |-> c.executeToolName,
                      ran |-> "execute", provided |-> "none",
                      raw |-> Undef, injected |-> Undef, res |-> res,
                      out |-> CodeMode_formatResult(res, c.maxResponseTokens)]]

\* A callTool that dispatches on the default tool names.
callTool_defaultNames(c, toolName, provided, res) ==
  IF toolName = <<"s", "e", "a", "r", "c", "h">>
    THEN search(c, "callTool", toolName, provided, res)
  ELSE IF toolName = <<"e", "x", "e", "c", "u", "t", "e">>
    THEN execute(c, "callTool", toolName, res)
  ELSE [c EXCEPT !.call = [op |-> "callTool", tool |-> toolName,
                           searchName |-> c.searchToolName,
                           executeName |-> c.executeToolName, ran |-> "none",
                           provided |-> "none", raw |-> Undef, injected |-> Undef,
                           res |-> ExecuteResult(UndefinedValue, NoText),
                           out |-> ToolCallResult(UNKNOWN_TOOL \o toolName, TRUE)]]

\* callTool(toolName, { code })
callTool(c, toolName, provided, res) ==
  IF toolName = c.searchToolName THEN search(c, "callTool", toolName, provided, res)
  ELSE IF toolName = c.executeToolName THEN execute(c, "callTool", toolName, res)
  ELSE [c EXCEPT !.call = [NoToolCall EXCEPT !.op = "callTool", !.tool = toolName,
                             !.searchName = c.searchToolName,
                             !.executeName = c.executeToolName,
                             !.out = ToolCallResult(UNKNOWN_TOOL \o toolName, TRUE)]]

MaxSearches == 3

MaxTextLen == 9

MaxTokens == 2

ALPHABET == <<"a", "b", "c", "d", "e", "f", "g", "h", "i", "j", "k", "l">>

ResultValues ==
  { StrValue(SubSeq(ALPHABET, 1, n)) : n \in 0..MaxTextLen }
    \cup { UndefinedValue, NullValue, NumValue(7), ArrValue(<<>>),
           ArrValue(<<NumValue(1)>>), ArrValue(<<NumValue(1), StrValue(<<"a">>)>>) }

ErrorTexts ==
  { <<"b", "o", "o", "m">>,
    <<"S", "c", "r", "i", "p", "t", " ", "e", "x", "e", "c", "u", "t", "i",
      "o", "n", " ", "t", "i", "m", "e", "d", " ", "o", "u", "t", ".">>,
    <<"R", "e", "q", "u", "e", "s", "t", " ", "l", "i", "m", "i", "t", " ",
      "e", "x", "c", "e", "e", "d", "e", "d", ":", " ", "m", "a", "x", " ",
      "5", "0", " ", "r", "e", "q", "u", "e", "s", "t", "s", " ", "p", "e",
      "r", " ", "e", "x", "e", "c", "u", "t", "i", "o", "n">> }

ExecuteResults ==
  { ExecuteResult(v, NoText) : v \in ResultValues }
    \cup { ExecuteResult(StrValue(<<"a", "b">>), Text(<<>>)) }
    \cup { ExecuteResult(v, Text(e)) :
             v \in {UndefinedValue, StrValue(<<"a", "b">>)}, e \in ErrorTexts }

ToolNames == { SEARCH, EXECUTE, <<"r", "u", "n">> }

\* The documents the spec provider may return.
RawSpecs ==
  { Obj(<< <<"servers", Arr(<< Obj(<< <<"url", Str("https://x.io/v3//")>> >>) >>)>>,
           <<"paths", Obj(<< <<"/pet", Obj(<< <<"get",
                Obj(<< <<"tags", Arr(<<Str("pets")>>)>>,
                       <<"parameters", Arr(<<Ref("#/A")>>)>> >>)>> >>)>> >>)>>,
           <<"A", Obj(<< <<"x", Ref("#/B")>> >>)>>,
           <<"B", Obj(<< <<"x", Ref("#/A")>> >>)>> >>),
    Obj(<< <<"paths", Obj(<< <<"/store", Obj(<< <<"post",
                Obj(<< <<"summary", Str("Order")>> >>)>> >>)>> >>)>> >>) }

\* What the provider does when invoked: Undef stands for a throw.
Provided == RawSpecs \cup {Undef}

setToolNames(c, searchName, executeName) ==
  [c EXCEPT !.searchToolName = searchName, !.executeToolName = executeName]

SetToolNames(searchName, executeName) ==
  /\ cm.status = "ready"
  /\ cm' = setToolNames(cm, searchName, executeName)
  /\ UNCHANGED <<cfg, menu, bridgeVars, callVars, rd, rs, ex, tc>>

CallTool(toolName, provided, res) ==
  /\ cm.status = "ready"
  /\ toolName = cm.searchToolName => cm.searches < MaxSearches
  /\ cm' = callTool(cm, toolName, provided, res)
  /\ UNCHANGED <<cfg, menu, bridgeVars, callVars, rd, rs, ex, tc>>

Search(provided, res) ==
  /\ cm.status = "ready"
  /\ cm.searches < MaxSearches
  /\ cm' = search(cm, "search", <<>>, provided, res)
  /\ UNCHANGED <<cfg, menu, bridgeVars, callVars, rd, rs, ex, tc>>

Execute(res) ==
  /\ cm.status = "ready"
  /\ cm' = execute(cm, "execute", <<>>, res)
  /\ UNCHANGED <<cfg, menu, bridgeVars, callVars, rd, rs, ex, tc>>

\* new CodeMode({ spec, request, executor, maxResponseTokens })
InitCodeMode(tokenOptions) ==
  /\ \E t \in tokenOptions :
       cm = [NoCodeMode EXCEPT !.status = "ready",
                               !.searchToolName = SEARCH,
                               !.executeToolName = EXECUTE,
                               !.maxResponseTokens = OrDefault(t, DEFAULT_MAX_RESPONSE_TOKENS)]
  /\ cfg = Config(NoOpt, NoOpt)
  /\ menu = {}
  /\ requestCount = 0
  /\ invoked = 0
  /\ handlerCalls = 0
  /\ inflight = [k \in Callers |-> 0]
  /\ last = NoLast
  /\ pc = [k \in Calls |-> "idle"]
  /\ issued = [k \in Callers |-> 0]
  /\ limited = [k \in Callers |-> FALSE]
  /\ startCount = [k \in Calls |-> 0]
  /\ beganOverlapped = [k \in Calls |-> FALSE]
  /\ escaped = [k \in Calls |-> NoError]
  /\ result = [k \in Calls |-> NoResult]
  /\ rd = IdleReader
  /\ rs = NoSpecRun
  /\ ex = NoExecutor
  /\ tc = NoCalls

\* One result without and one with an error.
FewResults ==
  { ExecuteResult(StrValue(<<"a", "b">>), NoText),
    ExecuteResult(UndefinedValue, Text(<<"b", "o", "o", "m">>)) }

InitTool == InitCodeMode({NoOpt})

NextTool ==
  \/ \E s \in ToolNames, e \in ToolNames : SetToolNames(s, e)
  \/ \E n \in ToolNames \cup {<<"u", "n", "k", "n", "o", "w", "n">>, <<>>},
        p \in Provided, r \in FewResults : CallTool(n, p, r)
  \/ \E p \in Provided, r \in FewResults : Search(p, r)

SpecTool == InitTool /\ [][NextTool]_vars

(***************************************************************************)
(* SpecFormat: search and execute called directly, over every executor     *)
(* result and maxResponseTokens of the model                               *)
(***************************************************************************)
NextFormat ==
  \/ \E p \in RawSpecs, r \in ExecuteResults : Search(p, r)
  \/ \E r \in ExecuteResults : Execute(r)

InitFormat == InitCodeMode({NoOpt} \cup { Some(n) : n \in 0..MaxTokens })

SpecFormat == InitFormat /\ [][NextFormat]_vars

(***************************************************************************)
(* Claims about the orchestrator's calls                                   *)
(***************************************************************************)
CalledTool == cm.call.op = "callTool"

UnknownToolText ==
  <<"U", "n", "k", "n", "o", "w", "n", " ", "t", "o", "o", "l", ":", " ">> \o cm.call.tool

\* The tool names are those last set by setToolNames when callTool is
\* called (cm.call.searchName, cm.call.executeName).
\* C15 as stated: callTool runs search for the current search tool name,
\* execute for the current execute tool name, and for any other name runs
\* neither and resolves to an isError result naming the tool.
C15_CallToolDispatch ==
  CalledTool =>
    /\ cm.call.tool = cm.call.searchName => cm.call.ran = "search"
    /\ cm.call.tool = cm.call.executeName => cm.call.ran = "execute"
    /\ cm.call.tool \notin {cm.call.searchName, cm.call.executeName} =>
         /\ cm.call.ran = "none"
         /\ cm.call.out = ToolCallResult(UnknownToolText, TRUE)

\* C15, amended: callTool runs search for the current search tool name,
\* execute for the current execute tool name when that is not also the
\* search tool name, and for any other name runs neither and resolves to
\* an isError result naming the tool.
C15_CallToolDispatchSearchFirst ==
  CalledTool =>
    /\ cm.call.tool = cm.call.searchName => cm.call.ran = "search"
    /\ (cm.call.tool = cm.call.executeName /\ cm.call.tool # cm.call.searchName) =>
         cm.call.ran = "execute"
    /\ cm.call.tool \notin {cm.call.searchName, cm.call.executeName} =>
         /\ cm.call.ran = "none"
         /\ cm.call.out = ToolCallResult(UnknownToolText, TRUE)

C15_Witness ==
  /\ CalledTool
  /\ cm.call.searchName = <<"r", "u", "n">>
  /\ cm.call.executeName = <<"s", "e", "a", "r", "c", "h">>
  /\ cm.searchToolName = cm.call.searchName
  /\ cm.executeToolName = cm.call.executeName
  /\ cm.call.tool = <<"s", "e", "a", "r", "c", "h">>
  /\ cm.call.ran = "execute"

\* The executor ran in the latest call and its result carries an error.
SandboxFailed ==
  /\ cm.call.ran \in {"search", "execute"}
  /\ cm.call.provided # "threw"
  /\ cm.call.res.error.has
  /\ cm.call.res.error.chars # <<>>

\* C16: when the executor's result carries a non-empty error, search and
\* execute resolve with the text "Error: " + error and isError true,
\* whatever the result field holds.
C16_SandboxErrorIsReturned ==
  SandboxFailed =>
    /\ cm.call.out.settled = "resolved"
    /\ cm.call.out.isError
    /\ cm.call.out.text =
         <<"E", "r", "r", "o", "r", ":", " ">> \o cm.call.res.error.chars

C16_Witness ==
  /\ SandboxFailed
  /\ cm.call.ran = "search"
  /\ cm.call.res.result = UndefinedValue
  /\ Len(cm.call.res.error.chars) > 4
  /\ cm.call.out.isError

\* The executor ran in the latest call and returned a value without error.
SandboxSucceeded ==
  /\ cm.call.ran \in {"search", "execute"}
  /\ cm.call.provided # "threw"
  /\ ~(cm.call.res.error.has /\ cm.call.res.error.chars # <<>>)
  /\ cm.call.res.result.t # "undefined"

\* The result text: a string as it is, the other values of the model in
\* their pretty JSON form.
ResultText(value) ==
  CASE value.t = "str" -> value.chars
    [] value = NullValue -> <<"n", "u", "l", "l">>
    [] value = NumValue(7) -> <<"7">>
    [] value = ArrValue(<<>>) -> <<"[", "]">>
    [] value = ArrValue(<<NumValue(1)>>) -> <<"[", "\n", " ", " ", "1", "\n", "]">>
    [] value = ArrValue(<<NumValue(1), StrValue(<<"a">>)>>) ->
         <<"[", "\n", " ", " ", "1", ",", "\n", " ", " ", "\"", "a", "\"", "\n", "]">>

\* The least k with 4k >= n.
TokensFor(n) == CHOOSE k \in 0..n : 4 * k >= n /\ (k = 0 \/ 4 * (k - 1) < n)

ProcessedOf(raw) ==
  IF Get(raw, "servers") # Undef
    THEN Obj(<< <<"paths", Obj(<< <<"/v3/pet", Obj(<< <<"get",
           Obj(<< <<"summary", Undef>>, <<"description", Undef>>,
                  <<"tags", Arr(<<Str("pets")>>)>>,
                  <<"parameters",
                    Arr(<< Obj(<< <<"x", Obj(<< <<"x", Circular("#/A")>> >>)>> >>) >>)>>,
                  <<"requestBody", Undef>>, <<"responses", Undef>> >>)>> >>)>> >>)>> >>)
    ELSE Obj(<< <<"paths", Obj(<< <<"/store", Obj(<< <<"post",
           Obj(<< <<"summary", Str("Order")>>, <<"description", Undef>>,
                  <<"tags", Undef>>, <<"parameters", Undef>>,
                  <<"requestBody", Undef>>, <<"responses", Undef>> >>)>> >>)>> >>)>> >>)

Searched == cm.call.ran = "search"

\* C20 as stated: once a search has been made the provider has been
\* invoked once and the spec processed once, and every search injects that
\* one processed spec, not the raw document.
C20_SpecBuiltOnFirstSearchOnly ==
  /\ cm.searches >= 1 => (cm.providerCalls = 1 /\ cm.processCalls = 1)
  /\ Searched =>
       /\ cm.call.injected = cm.first
       /\ cm.call.injected \in { ProcessedOf(raw) : raw \in RawSpecs }

\* C20, amended: the spec is processed at most once, on the first search
\* whose provider invocation succeeds; a search before that whose provider
\* invocation throws rejects and injects nothing; every other search
\* injects that one processed spec (refs resolved, base path prepended),
\* not a raw document, and after the build the provider is not invoked.
C20_SpecBuiltOnFirstSuccessfulSearchOnly ==
  /\ cm.processCalls <= 1
  /\ cm.providerCalls <= cm.searches
  /\ Searched =>
       CASE cm.call.provided = "threw" ->
              /\ cm.processCalls = 0
              /\ cm.call.out = Rejected
              /\ cm.call.injected = Undef
         [] cm.call.provided = "returned" ->
              /\ cm.processCalls = 1
              /\ cm.call.injected = ProcessedOf(cm.call.raw)
              /\ cm.call.injected = cm.first
         [] cm.call.provided = "none" ->
              /\ cm.processCalls = 1
              /\ cm.call.injected = cm.first
              /\ cm.call.injected \in { ProcessedOf(raw) : raw \in RawSpecs }

C20_Witness ==
  /\ Searched
  /\ cm.searches = 3
  /\ cm.providerCalls = 2
  /\ cm.processCalls = 1
  /\ cm.call.provided = "none"
  /\ cm.call.injected = cm.first
  /\ "/v3/pet" \in Keys(Get(cm.call.injected, "paths"))

(***************************************************************************)
(* SpecExecutor: one executor, its execute calls made one after the other, *)
(* the agent code of each call chosen statement by statement               *)
(***************************************************************************)
MaxExecutions == 2

MaxSteps == 2

ExecuteOps == {"search", "execute", "test"}

AssignedValues == {"secret", "changed"}

LogLines == {"hello world", "warning!"}

\* createExecutor(options.sandbox), or `new QuickJSExecutor()` handed to the
\* orchestrator as options.executor.
CreateExecutor(kind) ==
  /\ ex.pc = "none"
  /\ ex' = [ex EXCEPT !.kind = kind, !.pc = "idle"]
  /\ UNCHANGED <<cfg, menu, bridgeVars, callVars, rd, rs, cm, tc>>

\* executor.execute(code, globals) up to the run of the code: a new isolate
\* (a new QuickJS context and runtime), an empty `logs`, the console and the
\* globals injected.
ExecutorBegin(op) ==
  /\ ex.pc = "idle"
  /\ ex.executed < MaxExecutions
  /\ ex' = [ex EXCEPT !.pc = "running", !.op = op,
                      !.context = newContext(op, ex.host),
                      !.isDisposed = FALSE,
                      !.logs = <<>>, !.steps = 0, !.requests = 0,
                      !.wrote = {}, !.obs = NoObservation]
  /\ UNCHANGED <<cfg, menu, bridgeVars, callVars, rd, rs, cm, tc>>

\* The code assigns a global: `globalThis.leaked = "secret"`, `spec = ...`.
CodeAssign(n, v) ==
  /\ ex.pc = "running"
  /\ ex.steps < MaxSteps
  /\ ex' = [ex EXCEPT !.context = [@ EXCEPT ![n] = v],
                      !.wrote = @ \cup {n},
                      !.steps = @ + 1,
                      !.obs = [stmt |-> "assign", name |-> n, seen |-> v]]
  /\ UNCHANGED <<cfg, menu, bridgeVars, callVars, rd, rs, cm, tc>>

\* The code reads a global.
CodeRead(n) ==
  /\ ex.pc = "running"
  /\ ex.steps < MaxSteps
  /\ ex' = [ex EXCEPT !.steps = @ + 1,
                      !.obs = [stmt |-> "read", name |-> n, seen |-> ex.context[n]]]
  /\ UNCHANGED <<cfg, menu, bridgeVars, callVars, rd, rs, cm, tc>>

\* The code calls console.log, console.warn or console.error.
CodeConsole(line) ==
  /\ ex.pc = "running"
  /\ ex.steps < MaxSteps
  /\ ex' = [ex EXCEPT !.logs = console(ex.kind, @, line),
                      !.steps = @ + 1,
                      !.obs = [stmt |-> "console", name |-> "", seen |-> "returned"]]
  /\ UNCHANGED <<cfg, menu, bridgeVars, callVars, rd, rs, cm, tc>>

\* The code awaits <namespace>.request(...): the host function is
\* this.requestBridge, the closure the orchestrator's constructor made.
CodeRequest ==
  LET r == bridgeAdmit(requestCount, maxRequests, cfg.allowedHeaders,
                       Request(GET, <<"/", "a">>))
  IN  /\ ex.pc = "running"
      /\ ex.op = "execute"
      /\ ex.steps < MaxSteps
      /\ requestCount' = r.count
      /\ invoked' = invoked + 1
      /\ handlerCalls' = IF r.err = NoError THEN handlerCalls + 1 ELSE handlerCalls
      /\ ex' = [ex EXCEPT !.requests = @ + 1,
                          !.steps = @ + 1,
                          !.obs = [stmt |-> "request", name |-> "",
                                   seen |-> IF r.err = NoError THEN "ok" ELSE r.err.kind]]
      /\ UNCHANGED <<cfg, menu, inflight, last, issued, limited, callVars, rd, rs, cm, tc>>

\* The run of the code ends in one of the Outcomes; execute returns
\* { result, logs } or, from `catch`, { result: undefined, error, logs };
\* `finally` disposes the isolate, and when `finally` throws the promise of
\* execute is rejected instead.
ExecutorReturn(outcome) ==
  LET disposedByRuntime == runtimeDisposes(ex.kind, outcome)
      fin == finallyDispose(ex.kind, disposedByRuntime)
      failed == outcome # "returned"
  IN  /\ ex.pc = "running"
      /\ outcome = "malformed" => ex.steps = 0
      /\ ex' = [ex EXCEPT !.pc = "idle",
                          !.executed = @ + 1,
                          !.context = NoContext,
                          !.isDisposed = fin.isDisposed,
                          !.out = [settled |-> TRUE, rejected |-> fin.threw,
                                   failed |-> failed,
                                   hasResult |-> ~failed /\ ~fin.threw,
                                   outcome |-> outcome,
                                   logs |-> returnedLogs(ex.kind, ex.logs)],
                          !.earlier = [ran |-> TRUE, failed |-> failed,
                                       wrote |-> ex.wrote, requests |-> ex.requests]]
      /\ UNCHANGED <<cfg, menu, bridgeVars, callVars, rd, rs, cm, tc>>

InitExecutor == InitState(Config(Some(1), Some(3)), {})

NextExecutor ==
  \/ \E kind \in ExecutorKinds : CreateExecutor(kind)
  \/ \E op \in ExecuteOps : ExecutorBegin(op)
  \/ \E n \in GlobalNames, v \in AssignedValues : CodeAssign(n, v)
  \/ \E n \in GlobalNames : CodeRead(n)
  \/ \E line \in LogLines : CodeConsole(line)
  \/ CodeRequest
  \/ \E outcome \in Outcomes : ExecutorReturn(outcome)

SpecExecutor == InitExecutor /\ [][NextExecutor]_vars

(***************************************************************************)
(* Claims about the executors                                              *)
(***************************************************************************)
\* What a call reads of a global it has not written itself: the copy of the
\* host's value, for a data global injected into it, and no binding else.
InjectedValue(op, n) == IF n = "spec" /\ op = "search" THEN ORIGINAL ELSE Unbound

ReadOfUnwritten ==
  /\ ex.obs.stmt = "read"
  /\ ex.obs.name \notin ex.wrote

\* Within a call no global, injected or not, shows a write of an earlier
\* call, and the host's own objects are as they were.
ContextMadeForTheCall ==
  /\ ReadOfUnwritten => ex.obs.seen = InjectedValue(ex.op, ex.obs.name)
  /\ ex.host = Host

\* A call's requests are refused for a call's own count only.
RequestsCountedPerCall ==
  (ex.obs.stmt = "request" /\ ex.obs.seen = "Request limit exceeded") =>
    ex.requests > maxRequests

\* C18: of two executions on one executor or orchestrator, whatever the
\* first did and whether it succeeded or failed, the second sees no
\* binding, no global assignment and no host mutation of the first.
C18_NothingOfEarlierCallIsVisible ==
  /\ ContextMadeForTheCall
  /\ RequestsCountedPerCall

\* A second call, after a first that assigned a global and failed, reads
\* that global.
C18_SecondCallReads ==
  /\ ex.earlier.ran /\ ex.earlier.failed /\ ex.earlier.wrote # {}
  /\ ReadOfUnwritten
  /\ ex.obs.name \in ex.earlier.wrote

\* C19: console.log, console.warn and console.error are no-ops inside the
\* sandbox: a call of them does not throw and adds nothing to host memory.
C19_ConsoleIsNoOp ==
  /\ ex.logs = <<>>
  /\ ex.out.logs = <<>>

\* The code has called the console under the QuickJS executor.
C19_QuickJSConsoleCalled ==
  /\ ex.kind = QUICKJS
  /\ ex.obs.stmt = "console"

(***************************************************************************)
(* Claims about the memo and the depth limit of resolveRefs                *)
(***************************************************************************)
\* resolveRefs with memoisation disabled: the same tests in the same order,
\* without the look-up and the store of the memo, so that every $ref is
\* resolved afresh under its own ancestor chain.
RECURSIVE Unmemoised(_, _, _, _)
Unmemoised(obj, root, seen, maxDepth) ==
  IF obj.t = "arr"
    THEN Arr([i \in 1..Len(obj.v) |-> Unmemoised(obj.v[i][2], root, seen, maxDepth)])
  ELSE IF obj.t # "obj" THEN obj
  ELSE IF HasStringRef(obj)
    THEN LET ref == Get(obj, "$ref").s
         IN  IF ref \in seen THEN Circular(ref)
             ELSE IF Cardinality(seen) >= maxDepth THEN MaxDepthExceeded(ref)
             ELSE IF FirstDangerous(ref) # 0 THEN UnsafeRef(ref)
             ELSE Unmemoised(walk(root, RefParts(ref), 0).v, root,
                             seen \cup {ref}, maxDepth)
  ELSE LET kept == SelectSeq(obj.v, LAMBDA e : e[1] \notin DANGEROUS_KEYS)
       IN  Obj([i \in 1..Len(kept) |->
                  <<kept[i][1], Unmemoised(kept[i][2], root, seen, maxDepth)>>])

\* C21: for every document, node and maxRefDepth, resolveRefs with its memo
\* returns the tree that resolution without the memo returns.
C21_MemoEqualsFreshResolution ==
  RunDone("resolveRefs") =>
    rs.out = Unmemoised(rs.obj, rs.root, {}, rs.maxDepth)

(***************************************************************************)
(* Claims about the operations of processSpec                              *)
(***************************************************************************)
\* The operations of the input that processSpec processes: <<path, method>>
\* of a path item that is not skipped, whose method holds an operation.
LiveOperations ==
  { <<q, m>> \in InputPathKeys \X { HTTP_METHODS[i] : i \in 1..Len(HTTP_METHODS) } :
      /\ Truthy(Get(Get(rs.root, "paths"), q))
      /\ DeclaredBasePath(rs.root) \o q # "__proto__"
      /\ Truthy(Get(Get(Get(rs.root, "paths"), q), m)) }

InputOperation(o) == Get(Get(Get(rs.root, "paths"), o[1]), o[2])

OutputOperation(o) ==
  Get(Get(Get(rs.out, "paths"), DeclaredBasePath(rs.root) \o o[1]), o[2])

\* C22: every operation's output responses is the ref-resolved copy of its
\* whole responses mapping, every status key of the input present, and
\* summary, description and tags are copied verbatim.
C22_ResponsesResolvedWhole ==
  RunDone("processSpec") =>
    \A o \in LiveOperations :
      /\ Get(OutputOperation(o), "responses") =
           resolveRefs(Get(InputOperation(o), "responses"), rs.root, {},
                       rs.maxDepth, NoMemo).v
      /\ Keys(Get(InputOperation(o), "responses")) \ DANGEROUS_KEYS
           \subseteq Keys(Get(OutputOperation(o), "responses"))
      /\ \A f \in {"summary", "description", "tags"} :
           Get(OutputOperation(o), f) = Get(InputOperation(o), f)

\* The part of C22 that is about the fields copied verbatim.
OperationFieldsCopied ==
  RunDone("processSpec") =>
    \A o \in LiveOperations :
      \A f \in {"summary", "description", "tags"} :
        Get(OutputOperation(o), f) = Get(InputOperation(o), f)

\* The largest number of refs nested in one another below obj, each
\* followed from its own ancestor chain; CYCLIC when a ref is its own
\* ancestor.
CYCLIC == 99

Largest(S) == IF S = {} THEN 0 ELSE CHOOSE n \in S : \A k \in S : k <= n

RECURSIVE Nesting(_, _, _)
Nesting(obj, root, seen) ==
  IF obj.t \notin {"arr", "obj"} THEN 0
  ELSE IF obj.t = "obj" /\ HasStringRef(obj)
    THEN LET ref == Get(obj, "$ref").s
             below == Nesting(walk(root, RefParts(ref), 0).v, root, seen \cup {ref})
         IN  IF ref \in seen THEN CYCLIC
             ELSE IF FirstDangerous(ref) # 0 THEN 1
             ELSE IF below = CYCLIC THEN CYCLIC ELSE 1 + below
  ELSE Largest({ Nesting(obj.v[i][2], root, seen) :
                   i \in { j \in 1..Len(obj.v) :
                             obj.t = "arr" \/ obj.v[j][1] \notin DANGEROUS_KEYS } })

\* A $ref met while the ancestor chain holds maxRefDepth refs gets the
\* max-depth marker and nothing is resolved below it; a ref that is its own
\* ancestor gets the plain circular marker, whatever the depth.
MarkersAtSites ==
  RunDone("resolveRefs") =>
    \A e \in Sites :
      /\ Cardinality(e.seen) <= rs.maxDepth
      /\ e.ref \in e.seen => e.v = Circular(e.ref)
      /\ (e.ref \notin e.seen /\ Cardinality(e.seen) = rs.maxDepth) =>
           (e.v = MaxDepthExceeded(e.ref) /\ e.steps = 0)

\* An acyclic chain of at most maxRefDepth nested refs is resolved fully:
\* at a site where the refs of the ancestor chain and the refs nested from
\* the site on are maxRefDepth at most, the output holds the target's
\* value with every ref below resolved and no marker.
ShortChainsResolved ==
  RunDone("resolveRefs") =>
    \A e \in Sites :
      Cardinality(e.seen) + Nesting(Ref(e.ref), rs.root, e.seen) <= rs.maxDepth =>
        e.v = FreshValue(Ref(e.ref), rs.root, e.seen)

\* C23: a $ref met at the depth limit gets { $circular, $reason: "max depth
\* exceeded" } and nothing deeper is resolved, an acyclic chain of at most
\* maxRefDepth nested refs is resolved fully with no marker, and a cycle
\* gets the plain { $circular } marker.
C23_DepthLimitMarkers ==
  /\ MarkersAtSites
  /\ ShortChainsResolved

(***************************************************************************)
(* SpecOverlap: search and execute calls that overlap, on an orchestrator  *)
(* without a configured executor.  A call is followed from await to await. *)
(***************************************************************************)
\* getProcessedSpec after `await this.resolveSpec()` returned raw: the
\* spec is processed and stored, with the context for the descriptions.
storeProcessedSpec(c, raw) ==
  LET processed == processSpec(raw, DEFAULT_MAX_REF_DEPTH)
  IN  [c EXCEPT !.processCalls = @ + 1,
                !.processedSpec = processed,
                !.specContext = [has |-> TRUE, tags |-> extractTags(raw),
                                 endpointCount |-> Cardinality(Keys(Get(raw, "paths")))],
                !.first = IF c.first = Undef THEN processed ELSE c.first]

\* A getExecutor that keeps no promise of the executor being created.
getExecutor_noPromise(c) ==
  IF c.executor # 0 THEN c
  ELSE [c EXCEPT !.executorPromise = "pending", !.createCalls = @ + 1]

\* getExecutor(), up to the promise it returns: createExecutor is called
\* when there is neither an executor nor a promise of one.
getExecutor(c) ==
  IF c.executor # 0 THEN c
  ELSE IF c.executorPromise = "none"
    THEN [c EXCEPT !.executorPromise = "pending", !.createCalls = @ + 1]
  ELSE c

OtherCallUnderWay(c) ==
  \E d \in ToolCalls \ {c} : tc[d].pc \in {"awaitExecutor", "awaitSpec", "running"}

\* search(code) / execute(code) up to `await this.getExecutor()`.  An
\* embedder that has a call's result may make its next call.
ToolCallBegin(c, op) ==
  /\ cm.status = "ready"
  /\ tc[c].pc \in {"idle", "done", "rejected"}
  /\ op = "search" => cm.searches < MaxSearches
  /\ cm' = getExecutor([cm EXCEPT !.searches = IF op = "search" THEN @ + 1 ELSE @])
  /\ tc' = [tc EXCEPT ![c] = [NoCall EXCEPT !.op = op, !.pc = "awaitExecutor",
                                           !.overlapped = OtherCallUnderWay(c),
                                           !.waited = cm.executor = 0]]
  /\ UNCHANGED <<cfg, menu, bridgeVars, callVars, rd, rs, ex>>

\* createExecutor settles: `.then` stores the executor, or the promise is
\* rejected ("No sandbox runtime found").
CreateExecutorSettles(ok) ==
  /\ cm.executorPromise = "pending"
  /\ cm' = IF ok THEN [cm EXCEPT !.executorPromise = "resolved", !.executor = cm.createCalls]
                 ELSE [cm EXCEPT !.executorPromise = "rejected"]
  /\ UNCHANGED <<cfg, menu, bridgeVars, callVars, rd, rs, ex, tc>>

\* The call goes on with the executor: execute runs the code; search calls
\* getProcessedSpec, which returns the stored spec or awaits resolveSpec(),
\* the spec provider invoked.
ExecutorAwaited(c) ==
  /\ tc[c].pc = "awaitExecutor"
  /\ cm.executor # 0
  /\ IF tc[c].op = "execute"
       THEN /\ tc' = [tc EXCEPT ![c].pc = "running", ![c].executor = cm.executor]
            /\ cm' = cm
     ELSE IF Truthy(cm.processedSpec)
       THEN /\ tc' = [tc EXCEPT ![c].pc = "running", ![c].executor = cm.executor,
                                ![c].spec = cm.processedSpec]
            /\ cm' = cm
     ELSE /\ tc' = [tc EXCEPT ![c].pc = "awaitSpec", ![c].executor = cm.executor,
                              ![c].invokedProvider = TRUE]
          /\ cm' = [cm EXCEPT !.providerCalls = @ + 1]
  /\ UNCHANGED <<cfg, menu, bridgeVars, callVars, rd, rs, ex>>

\* The promise of the executor was rejected: the call rejects.
ExecutorFailed(c) ==
  /\ tc[c].pc = "awaitExecutor"
  /\ cm.executorPromise = "rejected"
  /\ tc' = [tc EXCEPT ![c].pc = "rejected"]
  /\ UNCHANGED <<cfg, menu, bridgeVars, callVars, rd, rs, cm, ex>>

\* The spec provider of call c settles: with a document, which is
\* processed and stored, or with an error, which rejects the call.
ProviderSettles(c, provided) ==
  /\ tc[c].pc = "awaitSpec"
  /\ IF provided = Undef
       THEN /\ tc' = [tc EXCEPT ![c].pc = "rejected"]
            /\ cm' = cm
       ELSE /\ cm' = storeProcessedSpec(cm, provided)
            /\ tc' = [tc EXCEPT ![c].pc = "running", ![c].spec = cm'.processedSpec]
  /\ UNCHANGED <<cfg, menu, bridgeVars, callVars, rd, rs, ex>>

\* executor.execute settles and the call returns formatResult(result).
ToolCallReturns(c) ==
  /\ tc[c].pc = "running"
  /\ tc' = [tc EXCEPT ![c].pc = "done"]
  /\ UNCHANGED <<cfg, menu, bridgeVars, callVars, rd, rs, cm, ex>>

\* new CodeMode({ spec, request }): no executor given.
InitOverlap == InitCodeMode({NoOpt})

NextOverlap ==
  \/ \E c \in ToolCalls, op \in {"search", "execute"} : ToolCallBegin(c, op)
  \/ \E ok \in BOOLEAN : CreateExecutorSettles(ok)
  \/ \E c \in ToolCalls : ExecutorAwaited(c)
  \/ \E c \in ToolCalls : ExecutorFailed(c)
  \/ \E c \in ToolCalls, p \in Provided : ProviderSettles(c, p)
  \/ \E c \in ToolCalls : ToolCallReturns(c)

SpecOverlap == InitOverlap /\ [][NextOverlap]_vars

(***************************************************************************)
(* Claims about overlapping calls                                          *)
(***************************************************************************)
AwaitingSpec == { c \in ToolCalls : tc[c].pc = "awaitSpec" }

HoldingSpec == { c \in ToolCalls : tc[c].spec # Undef }

\* C24: search calls that overlap before a processed spec is available
\* share one build: the provider is invoked once, the spec is processed
\* once and every call receives the same processed spec.
C24_OverlappingSearchesShareBuild ==
  /\ Cardinality(AwaitingSpec) <= 1
  /\ cm.processCalls <= 1
  /\ \A c \in HoldingSpec, d \in HoldingSpec : tc[c].spec = tc[d].spec

HoldingExecutor == { c \in ToolCalls : tc[c].executor # 0 }

Began == { c \in ToolCalls : tc[c].pc # "idle" }

\* C25: without a configured executor createExecutor is invoked exactly
\* once, however the calls overlap, and every call that gets an executor
\* gets that one instance.
C25_ExecutorCreatedOnce ==
  /\ cm.createCalls = IF Began = {} THEN 0 ELSE 1
  /\ \A c \in HoldingExecutor : tc[c].executor = cm.executor /\ cm.executor = 1
  /\ \A c \in ToolCalls : tc[c].pc \in {"awaitSpec", "running", "done"} => c \in HoldingExecutor

\* Of two calls that began before there was an executor, overlapping, one
\* has returned and its caller's next call, begun when the executor was
\* there, holds the executor too.
C25_Witness ==
  /\ cm.createCalls = 1
  /\ \E c \in HoldingExecutor, d \in HoldingExecutor :
       /\ tc[c].waited /\ tc[c].overlapped
       /\ ~tc[d].waited

(***************************************************************************)
(* Claims about the request body and the host handler                      *)
(***************************************************************************)
\* The content-type headers of a headers object, under any letter case.
ContentTypes(headers) == { k \in DOMAIN headers : toLowerCase(k) = ContentTypeKey }

\* The caller's content-type headers that survive the filtering.
CallerContentTypes ==
  ContentTypes(filterHeaders(last.opts.headers, cfg.allowedHeaders))

\* C26: with a body the handler gets the JSON body and exactly one
\* content-type header, the caller's if the caller set one under any letter
\* case and it survived filtering, "application/json" otherwise; without a
\* body it gets no body and no default content-type.
C26_OneContentType ==
  (last.phase = "awaiting" /\ Cardinality(CallerContentTypes) <= 1) =>
    IF last.opts.hasBody
      THEN /\ last.init.hasBody
           /\ Cardinality(ContentTypes(last.init.headers)) = 1
           /\ \A k \in ContentTypes(last.init.headers) :
                IF CallerContentTypes = {}
                  THEN last.init.headers[k] = "application/json"
                  ELSE k \in CallerContentTypes /\ last.init.headers[k] = last.opts.headers[k]
      ELSE /\ ~last.init.hasBody
           /\ ContentTypes(last.init.headers) = CallerContentTypes

\* The part of C26 that holds: a lower-case content-type of the caller is
\* kept, the default is added when the caller set none, and nothing is added
\* without a body.
ContentTypeDefaulted ==
  (last.phase = "awaiting" /\ ContentTypes(last.opts.headers) \subseteq {ContentTypeKey}) =>
    IF last.opts.hasBody
      THEN /\ last.init.hasBody
           /\ ContentTypes(last.init.headers) = {ContentTypeKey}
           /\ last.init.headers[ContentTypeKey] =
                IF CallerContentTypes = {} THEN "application/json"
                ELSE last.opts.headers[ContentTypeKey]
      ELSE /\ ~last.init.hasBody
           /\ ContentTypes(last.init.headers) = CallerContentTypes

\* C27: however the run of the code ends, the isolate or context made for
\* the call is disposed when execute settles, and execute resolves, with
\* { result: undefined, error } when the run failed, and never rejects.
C27_DisposedAndResolved ==
  (ex.pc = "idle" /\ ex.out.settled) =>
    /\ ex.isDisposed
    /\ ~ex.out.rejected
    /\ ex.out.outcome # "returned" => (ex.out.failed /\ ~ex.out.hasResult)

\* The part of C27 that holds: but for a memory cap exhausted under the
\* executor that disposes unasked, every call ends disposed and resolved.
DisposedAndResolvedElsewhere ==
  (ex.pc = "idle" /\ ex.out.settled
     /\ ~(ex.kind = ISOLATED_VM_CLOSURE /\ ex.out.outcome = "memory")) =>
    /\ ex.isDisposed
    /\ ~ex.out.rejected
    /\ ex.out.outcome # "returned" => (ex.out.failed /\ ~ex.out.hasResult)

\* The checks of the closure on the invocation recorded in `last`, made on
\* the request as the caller passed it.
ChecksPassed(l, count) ==
  /\ count <= maxRequests
  /\ toUpperCase(l.opts.method) \in ALLOWED_METHODS
  /\ validatePath(l.opts.path) = NoError

\* C28: the handler is invoked at most maxRequests times through one
\* closure, and only for an invocation that passed the count, method and
\* path checks; every invocation, one rejected for its method or path
\* included, raises the counter by one.
C28_HandlerWithinBudget ==
  /\ [](handlerCalls <= maxRequests /\ handlerCalls <= requestCount)
  /\ [][/\ handlerCalls' # handlerCalls =>
             (handlerCalls' = handlerCalls + 1 /\ ChecksPassed(last', requestCount'))
        /\ invoked' # invoked =>
             /\ requestCount' = requestCount + 1
             /\ ~ChecksPassed(last', requestCount') =>
                  (handlerCalls' = handlerCalls /\ last'.phase = "thrown")]_vars

\* The limit is met with fewer than maxRequests handler calls made: the
\* rejected invocations before it used up budget.
C28_Witness ==
  /\ last.phase = "thrown"
  /\ last.err.kind = "Request limit exceeded"
  /\ requestCount = maxRequests + 1
  /\ 0 < handlerCalls
  /\ handlerCalls < maxRequests

\* The latest call ran search or execute and the executor reported no error
\* (error absent, or the empty string that `if (result.error)` lets pass).
NoErrorReported ==
  /\ cm.call.ran \in {"search", "execute"}
  /\ cm.call.provided # "threw"
  /\ ~(cm.call.res.error.has /\ cm.call.res.error.chars # <<>>)

\* C29: a run in which the executor reports no error resolves, whatever the
\* value returned (undefined and "" included), to a ToolCallResult with a
\* text and isError unset.
C29_ResolvesWithoutError ==
  NoErrorReported =>
    (cm.call.out.settled = "resolved" /\ ~cm.call.out.isError)

\* The part of C29 that holds: every value but undefined is formatted.
DefinedResultsResolve ==
  (NoErrorReported /\ cm.call.res.result # UndefinedValue) =>
    (cm.call.out.settled = "resolved" /\ ~cm.call.out.isError)

\* C30: resolveRefs comes to an end on every document, cyclic ones
\* included, for every maxRefDepth: the run is done, and the recursion
\* follows a $ref only when it is not among its own ancestors and fewer
\* than maxRefDepth ancestors are open, so that the chain of open refs, a
\* set of pointers of the document, grows with every ref followed and
\* never beyond maxRefDepth.
C30_RefChainsBounded ==
  (rs.kind = "resolveRefs" /\ rs.pc # "ready") =>
    /\ rs.pc = "done"
    /\ \A e \in Sites :
         /\ e.seen \subseteq AllRefs
         /\ Cardinality(e.seen) <= rs.maxDepth
         /\ e.kind \in {"circular", "depth", "cached", "unsafe", "resolved"}
         /\ e.kind = "resolved" =>
              (e.ref \notin e.seen /\ Cardinality(e.seen) < rs.maxDepth)

\* A run over a cycle of two pointers ended, the cycle cut where the first
\* pointer came up again below both.
C30_Witness ==
  /\ RunDone("resolveRefs")
  /\ rs.maxDepth = DEFAULT_MAX_REF_DEPTH
  /\ \E e \in Sites :
       /\ e.kind = "circular"
       /\ e.seen = {"#/A", "#/B"}
  /\ \E e \in Sites : e.kind = "resolved" /\ e.seen = {"#/A"} /\ e.ref = "#/B"

====
